---- MODULE Spec2Model ----
(***************************************************************************)
(* A model of two subsystems of the node's storage layer:                  *)
(*   - the FlatState value inlining migration                               *)
(*     (core/store/src/flat/inlining_migration.rs), and                     *)
(*   - the per-shard state sync dump loop (nearcore/src/state_sync.rs).     *)
(* Byte strings are sequences of small naturals.  A CryptoHash is one       *)
(* natural, a ShardUId is the first ShardUIdLen bytes of a FlatState key.   *)
(***************************************************************************)
EXTENDS Naturals, Sequences, FiniteSets, TLC

(***************************************************************************)
(* Bounds of the model.                                                    *)
(***************************************************************************)
MaxThreads == 2
MaxBatchSize == 3
MaxWrites == 1
MaxIterErrors == 1
MaxRuns == 2
MaxEpoch == 2

(***************************************************************************)
(* Options: None is the empty sequence, Some(x) the one-element sequence.  *)
(***************************************************************************)
None == << >>
Some(x) == << x >>
IsSome(o) == o # << >>
Unwrap(o) == o[1]

(***************************************************************************)
(* FlatStateValue and its borsh codec (flat/types.rs, not part of the      *)
(* sources given; layout as in the specification, section 6).              *)
(*   Ref:     0 , hash , length                                            *)
(*   Inlined: 1 , length , bytes                                           *)
(* The threshold is scaled down from the production value.                 *)
(***************************************************************************)
INLINE_DISK_VALUE_THRESHOLD == 2
ShardUIdLen == 2

\* near_client::sync::state::STATE_DUMP_ITERATION_TIME_LIMIT_SECS, in the time
\* unit of the model
STATE_DUMP_ITERATION_TIME_LIMIT_SECS == 1

Ref(h, len) == [tag |-> "Ref", hash |-> h, length |-> len]
Inlined(b) == [tag |-> "Inlined", bytes |-> b]

\* FlatStateValue::inlined
inlined(b) == Inlined(b)

\* BorshSerialize for FlatStateValue
try_to_vec(v) ==
    IF v.tag = "Ref" THEN << 0, v.hash, v.length >>
    ELSE << 1, Len(v.bytes) >> \o v.bytes

\* BorshDeserialize for FlatStateValue: None when the bytes are malformed
try_from_slice(b) ==
    IF Len(b) = 0 THEN None
    ELSE IF b[1] = 0 THEN (IF Len(b) = 3 THEN Some(Ref(b[2], b[3])) ELSE None)
    ELSE IF b[1] = 1 THEN
        (IF Len(b) >= 2 /\ Len(b) = 2 + b[2]
         THEN Some(Inlined(SubSeq(b, 3, Len(b)))) ELSE None)
    ELSE None

\* decode_flat_state_db_key: the shard uid of a key, None when the key is too short
decode_flat_state_db_key(key) ==
    IF Len(key) < ShardUIdLen THEN None ELSE Some(SubSeq(key, 1, ShardUIdLen))

(***************************************************************************)
(* Byte-lexicographic order of keys, as the key-value engine orders them.  *)
(***************************************************************************)
LexLess(a, b) ==
    \E i \in 1..(Len(a) + 1) :
        /\ \A j \in 1..(i - 1) : j <= Len(b) /\ a[j] = b[j]
        /\ i <= Len(b)
        /\ (i > Len(a) \/ a[i] < b[i])

LexLeq(a, b) == a = b \/ LexLess(a, b)

RECURSIVE SortedKeys(_)
SortedKeys(S) ==
    IF S = {} THEN << >>
    ELSE LET m == CHOOSE k \in S : \A o \in S : LexLeq(k, o)
         IN  << m >> \o SortedKeys(S \ {m})

\* Store::iter: the entries of a column in key order
iter_column(col) ==
    LET ks == SortedKeys(DOMAIN col)
    IN  [i \in 1..Len(ks) |-> << ks[i], col[ks[i]] >>]

\* Store::iter_range: the entries with lower <= key < upper (as a set: the
\* only caller puts one write per entry into a batch, and keys are distinct)
iter_range(col, lower, upper) ==
    {<< k, col[k] >> : k \in {x \in DOMAIN col :
        /\ (IsSome(lower) => LexLeq(Unwrap(lower), x))
        /\ (IsSome(upper) => LexLess(x, Unwrap(upper)))}}


(***************************************************************************)
(* The universe of keys, values and hashes the model draws from.           *)
(* near_primitives::hash::hash is modelled as an injective map.            *)
(***************************************************************************)
ShardA == << 0, 0 >>
ShardB == << 1, 0 >>
K1 == << 0, 0, 0 >>
K2 == << 0, 0, 1 >>
KShort == << 1 >>
K4 == << 1, 0, 0 >>
VA == << 7 >>
VB == << 8, 8 >>
VBig == << 9, 9, 9 >>
\* a value whose trie node is missing from the State column
VLost == << 6 >>

hash(b) == CASE b = VA -> 1 [] b = VB -> 2 [] b = VBig -> 3 [] b = VLost -> 4
             [] OTHER -> 0

\* FlatStateValue::value_ref
value_ref(b) == Ref(hash(b), Len(b))

\* TrieCachingStorage::get_key_from_shard_uid_and_hash
get_key_from_shard_uid_and_hash(shard_uid, h) == << shard_uid, h >>

Garbage == << 2 >>

VARIABLES
    FlatState,          \* DBCol::FlatState: key |-> encoded FlatStateValue
    State,              \* DBCol::State: <<shard_uid, hash>> |-> raw bytes
    updates_mode,       \* the FlatStorageManager gate
    pc,                 \* position of the migration driver
    read_state_threads, \* argument of inline_flat_state_values
    batch_size,         \* argument of inline_flat_state_values
    iter,               \* store.iter(DBCol::FlatState): entries not yet yielded
    in_batch,           \* entries of the current chunk consumed so far
    min_key, max_key,   \* key range of the entries selected in the batch
    pending_requests,   \* StateValueReader.pending_requests
    value_request,      \* request channel
    request_closed,     \* the request sender has been dropped
    value_response,     \* response channel
    worker,             \* per thread: [st, req]
    joined,             \* join handles already joined by close
    hash_to_value,      \* the map built by receive_all
    store_update,       \* the write batch of the commit phase
    SKIPPED_COUNT,      \* metric incremented by log_skipped
    \* history, read by the properties only
    run,                \* number of the migration run
    flat0,              \* FlatState when the run started
    touched,            \* keys written by block processing during the run
    writes,             \* number of block-processing commits
    iter_errors,        \* iterator errors met by the scan and the re-reads of this run
    iter_failed,        \* keys of the entries an iterator of this run yielded as Err
    prev_iter_errors,   \* iterator errors met by earlier runs
    submitted,          \* requests submitted in the current batch
    selected,           \* keys selected in the current batch
    unresolved,         \* selected keys whose hash no request of their batch could read
    pauses,             \* times the run paused updates
    commits             \* write batches the run committed

migVars == << FlatState, State, updates_mode, pc, read_state_threads, batch_size,
              iter, in_batch, min_key, max_key, pending_requests, value_request,
              request_closed, value_response, worker, joined, hash_to_value,
              store_update, SKIPPED_COUNT, run, flat0, touched, writes,
              iter_errors, iter_failed, prev_iter_errors, submitted, selected, unresolved,
              pauses, commits >>

(***************************************************************************)
(* State of the state sync dumper of one shard (state_sync.rs).            *)
(***************************************************************************)
VARIABLES
    d_pc,               \* position of the state_sync_dump task
    keep_running,       \* StateSyncDumpHandle.keep_running
    restart_dump,       \* restart_dump_for_shards contains the shard
    progress,           \* the persisted StateSyncDumpProgress of the shard
    next_state,         \* result of the dispatch of the current iteration
    parts_to_dump,      \* working set of the inner part loop
    part_in_flight,     \* part_id of the part whose upload the task awaits
    elapsed,            \* timer.elapsed().as_secs() of the inner part loop
    external,           \* external storage: location |-> bytes
    StateParts,         \* DBCol::StateParts: <<sync_hash, part_id>> |-> bytes
    head_epoch,         \* epoch of the chain head
    final_epoch,        \* epoch of the last final block of the head
    first_epoch_height, \* epoch height of the first epoch of the model
    tracked,            \* care_about_shard for this account and shard
    has_progress,       \* has_progress of the iteration, FALSE until it records
    parts_dumped,       \* gauge STATE_SYNC_DUMP_NUM_PARTS_DUMPED of the shard
    \* a second dumper of the same shard, on the same external storage
    peer_pc,            \* position of the second dumper
    peer_progress,      \* the progress persisted in the second dumper's store
    peer_parts,         \* working set of the second dumper's part loop
    peer_in_flight,     \* part_id of the part whose upload the second dumper awaits
    \* history, read by the properties only
    last_write,         \* the progress value persisted last
    dumped,             \* epoch heights persisted as AllDumped so far
    prev_dumped,        \* the same, before the last persisted value
    listed,             \* part ids listed when the current iteration began
    quiet_before,       \* the iteration before uploaded and changed nothing, and
                        \* the task has neither slept nor uploaded since
    cleared_at_start,   \* the start dropped an AllDumped that is not yet replaced
    read_failed,        \* the read of the progress failed in the current iteration
    after_stop          \* part uploads and sleeps completed since stop

dumpVars == << d_pc, keep_running, restart_dump, progress, next_state,
               parts_to_dump, part_in_flight, elapsed, external, StateParts, head_epoch,
               final_epoch, first_epoch_height, tracked, has_progress,
               parts_dumped, peer_pc, peer_progress, peer_parts, peer_in_flight,
               last_write,
               dumped, prev_dumped, listed, quiet_before, cleared_at_start,
               read_failed, after_stop >>

vars == << migVars, dumpVars >>


EmptyMap == [x \in {} |-> 0]

\* a function given as a set of <<key, value>> pairs with distinct keys
MapOf(pairs) == [k \in {p[1] : p \in pairs} |-> (CHOOSE p \in pairs : p[1] = k)[2]]

AllValues == {VA, VB, VBig}
\* the State column: every value in shard A; shard B has lost the node of VB
StateInit == MapOf({<< get_key_from_shard_uid_and_hash(s, hash(v)), v >> :
                        s \in {ShardA, ShardB}, v \in AllValues}
                   \ {<< get_key_from_shard_uid_and_hash(ShardB, hash(VB)), VB >>})

Absent == << >>
InitChoices(k) ==
    CASE k = K1 -> {try_to_vec(value_ref(VA)), try_to_vec(value_ref(VLost)),
                    try_to_vec(inlined(VA))}
      [] k = K2 -> {Absent, try_to_vec(value_ref(VB)), try_to_vec(value_ref(VBig)),
                    Garbage}
      [] k = KShort -> {Absent, try_to_vec(value_ref(VA))}
      [] k = K4 -> {try_to_vec(value_ref(VA)), try_to_vec(value_ref(VB))}

KeyUniverse == {K1, K2, KShort, K4}

\* the column holding, for each key, the chosen bytes (no entry where Absent)
ColumnOf(choice) == [k \in {x \in KeyUniverse : choice[x] # Absent} |-> choice[k]]

\* StateValueReader::new and the start of inline_flat_state_values
StartRun(col, threads) ==
    /\ iter' = iter_column(col)
    /\ in_batch' = 0
    /\ min_key' = None
    /\ max_key' = None
    /\ pending_requests' = 0
    /\ value_request' = << >>
    /\ request_closed' = FALSE
    /\ value_response' = << >>
    /\ worker' = [w \in 1..threads |-> [st |-> "idle", req |-> None]]
    /\ joined' = 0
    /\ hash_to_value' = EmptyMap
    /\ store_update' = {}
    /\ flat0' = col
    /\ touched' = {}
    /\ iter_errors' = 0
    /\ iter_failed' = {}
    /\ prev_iter_errors' = prev_iter_errors + iter_errors
    /\ submitted' = << >>
    /\ selected' = {}
    /\ unresolved' = {}
    /\ pauses' = 0
    /\ commits' = 0

\* nothing completed since stop
NoneAfterStop == [uploads |-> 0, sleeps |-> 0]

\* Result<T, Error>
Ok(x) == [ok |-> TRUE, val |-> x]
Err == [ok |-> FALSE]

\* the dumper is not running
DumpIdle ==
    /\ d_pc = "stopped"
    /\ keep_running = FALSE
    /\ restart_dump = FALSE
    /\ progress = None
    /\ next_state = Ok(None)
    /\ parts_to_dump = {}
    /\ part_in_flight = None
    /\ elapsed = 0
    /\ external = EmptyMap
    /\ StateParts = EmptyMap
    /\ head_epoch = 0
    /\ final_epoch = 0
    /\ first_epoch_height = 1
    /\ tracked = TRUE
    /\ has_progress = FALSE
    /\ parts_dumped = 0
    /\ peer_pc = "off"
    /\ peer_progress = None
    /\ peer_parts = {}
    /\ peer_in_flight = None
    /\ last_write = None
    /\ dumped = {}
    /\ prev_dumped = {}
    /\ listed = {}
    /\ quiet_before = FALSE
    /\ read_failed = FALSE
    /\ cleared_at_start = FALSE
    /\ after_stop = NoneAfterStop

\* the state in which inline_flat_state_values starts on a column
InitMigOf(col, threads, size) ==
    /\ FlatState = col
    /\ State = StateInit
    /\ updates_mode = TRUE
    /\ pc = "scan"
    /\ read_state_threads = threads
    /\ batch_size = size
    /\ iter = iter_column(FlatState)
    /\ in_batch = 0
    /\ min_key = None
    /\ max_key = None
    /\ pending_requests = 0
    /\ value_request = << >>
    /\ request_closed = FALSE
    /\ value_response = << >>
    /\ worker = [w \in 1..read_state_threads |-> [st |-> "idle", req |-> None]]
    /\ joined = 0
    /\ hash_to_value = EmptyMap
    /\ store_update = {}
    /\ SKIPPED_COUNT = 0
    /\ run = 1
    /\ flat0 = FlatState
    /\ touched = {}
    /\ writes = 0
    /\ iter_errors = 0
    /\ iter_failed = {}
    /\ prev_iter_errors = 0
    /\ submitted = << >>
    /\ selected = {}
    /\ unresolved = {}
    /\ pauses = 0
    /\ commits = 0

InitMig ==
    /\ \E choice \in [KeyUniverse -> UNION {InitChoices(k) : k \in KeyUniverse}] :
          /\ \A k \in KeyUniverse : choice[k] \in InitChoices(k)
          /\ \E threads \in 1..MaxThreads, size \in 1..MaxBatchSize :
                InitMigOf(ColumnOf(choice), threads, size)
    /\ DumpIdle


(***************************************************************************)
(* StateValueReader                                                        *)
(***************************************************************************)
ReadValueRequest(shard_uid, value_hash) ==
    [shard_uid |-> shard_uid, value_hash |-> value_hash]
ReadValueResponse(value_hash, value_bytes) ==
    [value_hash |-> value_hash, value_bytes |-> value_bytes]

\* TrieDBStorage::retrieve_raw_bytes: None stands for Err
retrieve_raw_bytes(shard_uid, h) ==
    IF get_key_from_shard_uid_and_hash(shard_uid, h) \in DOMAIN State
    THEN Some(State[get_key_from_shard_uid_and_hash(shard_uid, h)])
    ELSE None

\* HashMap::insert
MapInsert(m, k, v) == [x \in DOMAIN m \cup {k} |-> IF x = k THEN v ELSE m[x]]

readerVars == << pending_requests, value_request, request_closed, value_response,
                 worker, joined >>
batchVars == << in_batch, min_key, max_key, submitted, selected >>
histVars == << run, flat0, touched, writes, iter_errors, iter_failed, unresolved, pauses,
               commits >>
inputVars == << read_state_threads, batch_size, State, prev_iter_errors >>

\* worker thread: recv() returns a request
WorkerRecv(w) ==
    /\ worker[w].st = "idle"
    /\ value_request # << >>
    /\ worker' = [worker EXCEPT ![w] = [st |-> "busy", req |-> Some(Head(value_request))]]
    /\ value_request' = Tail(value_request)
    /\ UNCHANGED << FlatState, updates_mode, pc, iter, batchVars, pending_requests,
                    request_closed, value_response, joined, hash_to_value,
                    store_update, SKIPPED_COUNT, histVars, inputVars, dumpVars >>

\* mutant of WorkerResponse: a failed read is answered with empty bytes
WorkerResponseEmptyOnError(req) ==
    ReadValueResponse(req.value_hash,
        IF IsSome(retrieve_raw_bytes(req.shard_uid, req.value_hash))
        THEN retrieve_raw_bytes(req.shard_uid, req.value_hash)
        ELSE Some(<< >>))

\* the response a worker sends for a request
WorkerResponse(req) ==
    ReadValueResponse(req.value_hash, retrieve_raw_bytes(req.shard_uid, req.value_hash))

\* mutant of WorkerReply: a failed read is logged and no response is sent
WorkerReplyDropsFailed(w) ==
    /\ worker[w].st = "busy"
    /\ LET req == Unwrap(worker[w].req)
           resp == WorkerResponse(req)
       IN  /\ SKIPPED_COUNT' = IF IsSome(resp.value_bytes) THEN SKIPPED_COUNT
                               ELSE SKIPPED_COUNT + 1
           /\ value_response' = IF IsSome(resp.value_bytes)
                                THEN Append(value_response, resp)
                                ELSE value_response
    /\ worker' = [worker EXCEPT ![w] = [st |-> "idle", req |-> None]]
    /\ UNCHANGED << FlatState, updates_mode, pc, iter, batchVars, pending_requests,
                    value_request, request_closed, joined, hash_to_value,
                    store_update, histVars, inputVars, dumpVars >>

\* worker thread: read the value and send the response
WorkerReply(w) ==
    /\ worker[w].st = "busy"
    /\ LET req == Unwrap(worker[w].req)
           resp == WorkerResponse(req)
       IN  /\ SKIPPED_COUNT' = IF IsSome(resp.value_bytes) THEN SKIPPED_COUNT
                               ELSE SKIPPED_COUNT + 1
           /\ value_response' = Append(value_response, resp)
    /\ worker' = [worker EXCEPT ![w] = [st |-> "idle", req |-> None]]
    /\ UNCHANGED << FlatState, updates_mode, pc, iter, batchVars, pending_requests,
                    value_request, request_closed, joined, hash_to_value,
                    store_update, histVars, inputVars, dumpVars >>

\* worker thread: recv() fails because the channel is closed and drained
WorkerExit(w) ==
    /\ worker[w].st = "idle"
    /\ value_request = << >>
    /\ request_closed
    /\ worker' = [worker EXCEPT ![w] = [st |-> "exited", req |-> None]]
    /\ UNCHANGED << FlatState, updates_mode, pc, iter, batchVars, pending_requests,
                    value_request, request_closed, value_response, joined,
                    hash_to_value, store_update, SKIPPED_COUNT, histVars, inputVars, dumpVars >>

spawn_read_value_thread(w) == WorkerRecv(w) \/ WorkerReply(w) \/ WorkerExit(w)

(***************************************************************************)
(* inline_flat_state_values: the scan phase                                *)
(***************************************************************************)

\* mutant of IsSelected: the threshold is exclusive
IsSelectedBelowThreshold(key, value) ==
    /\ IsSome(decode_flat_state_db_key(key))
    /\ IsSome(try_from_slice(value))
    /\ Unwrap(try_from_slice(value)).tag = "Ref"
    /\ Unwrap(try_from_slice(value)).length < INLINE_DISK_VALUE_THRESHOLD

\* mutant of IsSelected: the length is not compared with the threshold
IsSelectedAnyRef(key, value) ==
    /\ IsSome(decode_flat_state_db_key(key))
    /\ IsSome(try_from_slice(value))
    /\ Unwrap(try_from_slice(value)).tag = "Ref"

\* whether the scan selects a decoded entry for inlining
IsSelected(key, value) ==
    /\ IsSome(decode_flat_state_db_key(key))
    /\ IsSome(try_from_slice(value))
    /\ Unwrap(try_from_slice(value)).tag = "Ref"
    /\ Unwrap(try_from_slice(value)).length <= INLINE_DISK_VALUE_THRESHOLD

\* mutant of ScanSkips: an entry that does not decode is passed over silently
ScanSkipsUncounted(key, value) == 0

\* log_skipped calls made by the scan for an entry
ScanSkips(key, value) ==
    IF IsSome(decode_flat_state_db_key(key)) /\ IsSome(try_from_slice(value))
    THEN 0 ELSE 1

\* one Ok entry of the chunk
ScanEntry ==
    /\ pc = "scan"
    /\ iter # << >>
    /\ in_batch < batch_size
    /\ LET key == Head(iter)[1]
           value == Head(iter)[2]
       IN  IF IsSelected(key, value)
           THEN LET req == ReadValueRequest(Unwrap(decode_flat_state_db_key(key)),
                                            Unwrap(try_from_slice(value)).hash)
                IN  /\ min_key' = IF IsSome(min_key) THEN min_key ELSE Some(key)
                    /\ max_key' = Some(key)
                    /\ value_request' = Append(value_request, req)
                    /\ pending_requests' = pending_requests + 1
                    /\ submitted' = Append(IF in_batch = 0 THEN << >> ELSE submitted, req)
                    /\ selected' = (IF in_batch = 0 THEN {} ELSE selected) \cup {key}
                    /\ UNCHANGED SKIPPED_COUNT
           ELSE /\ SKIPPED_COUNT' = SKIPPED_COUNT + ScanSkips(key, value)
                /\ submitted' = IF in_batch = 0 THEN << >> ELSE submitted
                /\ selected' = IF in_batch = 0 THEN {} ELSE selected
                /\ UNCHANGED << min_key, max_key, value_request, pending_requests >>
    /\ iter' = Tail(iter)
    /\ in_batch' = in_batch + 1
    /\ UNCHANGED << FlatState, updates_mode, pc, request_closed, value_response,
                    worker, joined, hash_to_value, store_update, histVars, inputVars, dumpVars >>

\* the iterator yields Err in place of an entry
ScanIterError ==
    /\ pc = "scan"
    /\ iter # << >>
    /\ in_batch < batch_size
    /\ iter_errors + prev_iter_errors < MaxIterErrors
    /\ iter_errors' = iter_errors + 1
    /\ iter_failed' = iter_failed \cup {Head(iter)[1]}
    /\ SKIPPED_COUNT' = SKIPPED_COUNT + 1
    /\ iter' = Tail(iter)
    /\ in_batch' = in_batch + 1
    /\ submitted' = IF in_batch = 0 THEN << >> ELSE submitted
    /\ selected' = IF in_batch = 0 THEN {} ELSE selected
    /\ UNCHANGED << FlatState, updates_mode, pc, min_key, max_key, readerVars, hash_to_value, store_update, run, flat0,
                    touched, writes, unresolved, pauses, commits, inputVars, dumpVars >>

\* the chunk is complete: call receive_all
EndBatch ==
    /\ pc = "scan"
    /\ in_batch > 0
    /\ (in_batch = batch_size \/ iter = << >>)
    /\ pc' = "recv"
    /\ hash_to_value' = EmptyMap
    /\ UNCHANGED << FlatState, updates_mode, iter, batchVars, readerVars,
                    store_update, SKIPPED_COUNT, histVars, inputVars, dumpVars >>

\* the iterator is exhausted: leave the loop
EndLoop ==
    /\ pc = "scan"
    /\ in_batch = 0
    /\ iter = << >>
    /\ pc' = "close"
    /\ UNCHANGED << FlatState, updates_mode, iter, batchVars, readerVars,
                    hash_to_value, store_update, SKIPPED_COUNT, histVars, inputVars, dumpVars >>


(***************************************************************************)
(* StateValueReader::receive_all                                           *)
(***************************************************************************)
\* mutant of ReceiveOne: a failed read takes the hash out of the map
ReceiveOneLastWins ==
    /\ pc = "recv"
    /\ pending_requests > 0
    /\ value_response # << >>
    /\ LET resp == Head(value_response)
       IN  hash_to_value' = IF IsSome(resp.value_bytes)
                            THEN MapInsert(hash_to_value, resp.value_hash,
                                           Unwrap(resp.value_bytes))
                            ELSE [h \in DOMAIN hash_to_value \ {resp.value_hash} |->
                                     hash_to_value[h]]
    /\ value_response' = Tail(value_response)
    /\ pending_requests' = pending_requests - 1
    /\ UNCHANGED << FlatState, updates_mode, pc, iter, batchVars, value_request,
                    request_closed, worker, joined, store_update, SKIPPED_COUNT,
                    histVars, inputVars, dumpVars >>

\* one turn of the loop: recv() a response
ReceiveOne ==
    /\ pc = "recv"
    /\ pending_requests > 0
    /\ value_response # << >>
    /\ LET resp == Head(value_response)
       IN  hash_to_value' = IF IsSome(resp.value_bytes)
                            THEN MapInsert(hash_to_value, resp.value_hash,
                                           Unwrap(resp.value_bytes))
                            ELSE hash_to_value
    /\ value_response' = Tail(value_response)
    /\ pending_requests' = pending_requests - 1
    /\ UNCHANGED << FlatState, updates_mode, pc, iter, batchVars, value_request,
                    request_closed, worker, joined, store_update, SKIPPED_COUNT,
                    histVars, inputVars, dumpVars >>

\* the hash the scan read for a selected key (the iterator reads flat0)
SelectedHash(k) == Unwrap(try_from_slice(flat0[k])).hash

\* some request of the current batch for hash h reads its value from the trie store
ReadableInBatch(h) ==
    \E i \in 1..Len(submitted) :
        /\ submitted[i].value_hash = h
        /\ IsSome(retrieve_raw_bytes(submitted[i].shard_uid, h))

\* mutant of ReceiveReturn: the commit phase runs also when the map is empty
ReceiveReturnAlwaysCommit ==
    /\ pc = "recv"
    /\ pending_requests = 0
    /\ unresolved' = unresolved \cup {k \in selected : ~ReadableInBatch(SelectedHash(k))}
    /\ pc' = "pause"
    /\ UNCHANGED << in_batch, min_key, max_key >>
    /\ UNCHANGED << FlatState, updates_mode, iter, submitted, selected, readerVars,
                    hash_to_value, store_update, SKIPPED_COUNT, run, flat0, touched,
                    writes, iter_errors, iter_failed, pauses, commits, inputVars, dumpVars >>

\* receive_all returns; the batch is committed only if the map is not empty
ReceiveReturn ==
    /\ pc = "recv"
    /\ pending_requests = 0
    /\ unresolved' = unresolved \cup {k \in selected : ~ReadableInBatch(SelectedHash(k))}
    /\ IF hash_to_value # EmptyMap
       THEN /\ pc' = "pause"
            /\ UNCHANGED << in_batch, min_key, max_key >>
       ELSE /\ pc' = "scan"
            /\ in_batch' = 0
            /\ min_key' = None
            /\ max_key' = None
    /\ UNCHANGED << FlatState, updates_mode, iter, submitted, selected, readerVars,
                    hash_to_value, store_update, SKIPPED_COUNT, run, flat0, touched,
                    writes, iter_errors, iter_failed, pauses, commits, inputVars, dumpVars >>

(***************************************************************************)
(* inline_flat_state_values: the commit phase                              *)
(***************************************************************************)

\* mutant of Pause: the gate is left open
PauseWithoutGate ==
    /\ pc = "pause"
    /\ UNCHANGED updates_mode
    /\ store_update' = {}
    /\ pauses' = pauses + 1
    /\ pc' = "reread"
    /\ UNCHANGED << FlatState, iter, batchVars, readerVars, hash_to_value,
                    SKIPPED_COUNT, run, flat0, touched, writes, iter_errors, iter_failed,
                    unresolved, commits, inputVars, dumpVars >>

\* flat_storage_manager.set_flat_state_updates_mode(false)
Pause ==
    /\ pc = "pause"
    /\ updates_mode' = FALSE
    /\ store_update' = {}
    /\ pauses' = pauses + 1
    /\ pc' = "reread"
    /\ UNCHANGED << FlatState, iter, batchVars, readerVars, hash_to_value,
                    SKIPPED_COUNT, run, flat0, touched, writes, iter_errors, iter_failed,
                    unresolved, commits, inputVars, dumpVars >>

\* mutant of upper_bound_key: max_key itself is the exclusive end
upper_bound_key_exclusive(mk) == mk

\* max_key with 0u8 appended: the exclusive end of the range
upper_bound_key(mk) == IF IsSome(mk) THEN Some(Append(Unwrap(mk), 0)) ELSE None

\* whether the re-read rewrites an entry: it decodes to a Ref whose hash is in the map
RewritesEntry(value, map) ==
    /\ IsSome(try_from_slice(value))
    /\ Unwrap(try_from_slice(value)).tag = "Ref"
    /\ Unwrap(try_from_slice(value)).hash \in DOMAIN map

\* mutant of RereadWrites: the values read by the scan are written back
RereadWritesFromScan(col, lo, hi, map, failed) ==
    {<< k, try_to_vec(inlined(map[SelectedHash(k)])) >> :
        k \in {x \in selected : SelectedHash(x) \in DOMAIN map}}

\* mutant of RereadWrites: the bytes are not looked up by the hash of the entry
RereadWritesAnyHash(col, lo, hi, map, failed) ==
    {<< e[1], try_to_vec(inlined(map[CHOOSE h \in DOMAIN map : TRUE])) >> :
        e \in {x \in iter_range(col, lo, upper_bound_key(hi)) :
                  x[1] \notin failed /\ RewritesEntry(x[2], map)}}

\* the writes the re-read puts into the batch; failed holds the keys of the
\* entries the range iterator yields as Err, which flat_map drops
RereadWrites(col, lo, hi, map, failed) ==
    {<< e[1], try_to_vec(inlined(map[Unwrap(try_from_slice(e[2])).hash])) >> :
        e \in {x \in iter_range(col, lo, upper_bound_key(hi)) :
                  x[1] \notin failed /\ RewritesEntry(x[2], map)}}

\* the sets of entries of the range the iterator can yield as Err
RereadErrors(col, lo, hi) ==
    {failed \in SUBSET {x[1] : x \in iter_range(col, lo, upper_bound_key(hi))} :
        iter_errors + prev_iter_errors + Cardinality(failed) <= MaxIterErrors}

\* the re-read of the range: an Err of the iterator is dropped without a log
Reread ==
    /\ pc = "reread"
    /\ \E failed \in RereadErrors(FlatState, min_key, max_key) :
          /\ store_update' =
                 RereadWrites(FlatState, min_key, max_key, hash_to_value, failed)
          /\ iter_errors' = iter_errors + Cardinality(failed)
          /\ iter_failed' = iter_failed \cup failed
    /\ pc' = "commit"
    /\ UNCHANGED << FlatState, updates_mode, iter, batchVars, readerVars,
                    hash_to_value, SKIPPED_COUNT, run, flat0, touched, writes,
                    unresolved, pauses, commits, inputVars, dumpVars >>

\* StoreUpdate::commit of a batch of set operations
ApplyUpdate(col, upd) ==
    [k \in DOMAIN col \cup {u[1] : u \in upd} |->
        IF \E u \in upd : u[1] = k THEN (CHOOSE u \in upd : u[1] = k)[2] ELSE col[k]]

Commit ==
    /\ pc = "commit"
    /\ FlatState' = ApplyUpdate(FlatState, store_update)
    /\ commits' = commits + 1
    /\ pc' = "resume"
    /\ UNCHANGED << updates_mode, iter, batchVars, readerVars, hash_to_value,
                    store_update, SKIPPED_COUNT, run, flat0, touched, writes,
                    iter_errors, iter_failed, unresolved, pauses, inputVars, dumpVars >>

\* commit() returns Err: expect() panics and the migration aborts.  When the
\* panic unwinds, value_reader is dropped: the request channel is closed and the
\* workers leave their loop, unjoined; when it aborts, every thread ends at once
CommitFail ==
    /\ pc = "commit"
    /\ pc' = "panicked"
    /\ request_closed' = TRUE
    /\ \E unwinds \in BOOLEAN :
          worker' = IF unwinds THEN worker
                    ELSE [w \in DOMAIN worker |-> [st |-> "exited", req |-> None]]
    /\ UNCHANGED << FlatState, updates_mode, iter, batchVars, pending_requests,
                    value_request, value_response, joined, hash_to_value,
                    store_update, SKIPPED_COUNT, histVars, inputVars, dumpVars >>

\* mutant of Resume: the next batch is scanned with the updates still paused
ResumeKeepsPaused ==
    /\ pc = "resume"
    /\ UNCHANGED updates_mode
    /\ pc' = "scan"
    /\ in_batch' = 0
    /\ min_key' = None
    /\ max_key' = None
    /\ UNCHANGED << FlatState, iter, submitted, selected, readerVars, hash_to_value,
                    store_update, SKIPPED_COUNT, histVars, inputVars, dumpVars >>

\* flat_storage_manager.set_flat_state_updates_mode(true)
Resume ==
    /\ pc = "resume"
    /\ updates_mode' = TRUE
    /\ pc' = "scan"
    /\ in_batch' = 0
    /\ min_key' = None
    /\ max_key' = None
    /\ UNCHANGED << FlatState, iter, submitted, selected, readerVars, hash_to_value,
                    store_update, SKIPPED_COUNT, histVars, inputVars, dumpVars >>

(***************************************************************************)
(* StateValueReader::close                                                 *)
(***************************************************************************)

\* mutant of CloseDropSender: the handles are joined with the sender still alive
CloseWithoutDrop ==
    /\ pc = "close"
    /\ UNCHANGED request_closed
    /\ pc' = "join"
    /\ UNCHANGED << FlatState, updates_mode, iter, batchVars, pending_requests,
                    value_request, value_response, worker, joined, hash_to_value,
                    store_update, SKIPPED_COUNT, histVars, inputVars, dumpVars >>

\* std::mem::drop(self.value_request_send)
CloseDropSender ==
    /\ pc = "close"
    /\ request_closed' = TRUE
    /\ pc' = "join"
    /\ UNCHANGED << FlatState, updates_mode, iter, batchVars, pending_requests,
                    value_request, value_response, worker, joined, hash_to_value,
                    store_update, SKIPPED_COUNT, histVars, inputVars, dumpVars >>

\* join_handle.join() of the next handle; the function returns after the last
CloseJoin ==
    /\ pc = "join"
    /\ joined < read_state_threads
    /\ worker[joined + 1].st = "exited"
    /\ joined' = joined + 1
    /\ pc' = IF joined + 1 = read_state_threads THEN "done" ELSE "join"
    /\ UNCHANGED << FlatState, updates_mode, iter, batchVars, pending_requests,
                    value_request, request_closed, value_response, worker,
                    hash_to_value, store_update, SKIPPED_COUNT, histVars, inputVars, dumpVars >>

(***************************************************************************)
(* Block processing: a commit to FlatState, which takes the gate first     *)
(* (FlatStorage::update_flat_head, not part of the sources given).         *)
(***************************************************************************)
WriterKeys == {K1, K2}
WriterValues == {Absent, try_to_vec(inlined(VB)), try_to_vec(value_ref(VB))}

\* the column after block processing sets key k to v (deletes it when Absent)
WriteEntry(col, k, v) ==
    IF v = Absent THEN [x \in DOMAIN col \ {k} |-> col[x]]
    ELSE [x \in DOMAIN col \cup {k} |-> IF x = k THEN v ELSE col[x]]

BlockProcessingCommit ==
    /\ updates_mode
    /\ pc \notin {"done", "panicked"}
    /\ writes < MaxWrites
    /\ \E k \in WriterKeys, v \in WriterValues :
          /\ FlatState' = WriteEntry(FlatState, k, v)
          /\ touched' = touched \cup {k}
    /\ writes' = writes + 1
    /\ UNCHANGED << updates_mode, pc, iter, batchVars, readerVars, hash_to_value,
                    store_update, SKIPPED_COUNT, run, flat0, iter_errors, iter_failed,
                    unresolved, pauses, commits, inputVars, dumpVars >>

(***************************************************************************)
(* A further call of inline_flat_state_values on the store the previous    *)
(* call left.                                                              *)
(***************************************************************************)
Rerun ==
    /\ pc = "done"
    /\ run < MaxRuns
    /\ run' = run + 1
    /\ pc' = "scan"
    /\ read_state_threads' \in 1..MaxThreads
    /\ batch_size' \in 1..MaxBatchSize
    /\ StartRun(FlatState, read_state_threads')
    /\ UNCHANGED << FlatState, State, updates_mode, SKIPPED_COUNT, writes, dumpVars >>

Driver ==
    \/ ScanEntry \/ ScanIterError \/ EndBatch \/ EndLoop
    \/ ReceiveOne \/ ReceiveReturn
    \/ Pause \/ Reread \/ Commit \/ CommitFail \/ Resume
    \/ CloseDropSender \/ CloseJoin

WorkerStep(w) == w \in DOMAIN worker /\ spawn_read_value_thread(w)

Workers ==
    \/ \E w \in DOMAIN worker : WorkerRecv(w)
    \/ \E w \in DOMAIN worker : WorkerReply(w)
    \/ \E w \in DOMAIN worker : WorkerExit(w)

Next == Driver \/ Workers \/ BlockProcessingCommit

Spec == InitMig /\ [][Next]_vars

\* the threads of the migration; some thread that can run is scheduled
NextThreads == Driver \/ Workers

FairSpec ==
    /\ InitMig
    /\ [][NextThreads]_vars
    /\ WF_vars(NextThreads)

NextQuiet == Driver \/ Workers \/ Rerun

QuietSpec == InitMig /\ [][NextQuiet]_vars

(***************************************************************************)
(* The state sync dumper of one shard: state_sync_dump and its helpers.    *)
(* The chain is seen through the epoch of its head and the epoch of the    *)
(* head's last final block; an epoch id is the index of the epoch and a    *)
(* sync hash is the index of the epoch whose first block it names.         *)
(***************************************************************************)
Epochs == 0..MaxEpoch

\* StateSyncDumpProgress
InProgress(epoch_id, epoch_height, sync_hash) ==
    [tag |-> "InProgress", epoch_id |-> epoch_id, epoch_height |-> epoch_height,
     sync_hash |-> sync_hash]
AllDumped(epoch_id, epoch_height, num_parts) ==
    [tag |-> "AllDumped", epoch_id |-> epoch_id, epoch_height |-> epoch_height,
     num_parts |-> num_parts]

\* epoch_manager.get_epoch_info(epoch_id).epoch_height()
epoch_height_of(epoch_id) == first_epoch_height + epoch_id

\* StateSync::get_epoch_start_sync_hash: the first block of the epoch of a block
get_epoch_start_sync_hash(block_epoch) == block_epoch

\* the epoch id in the header of a sync block
header_epoch_id(sync_hash) == sync_hash

\* get_num_state_parts of the state header at sync_hash: the state of an even
\* epoch fits one part, the state of an odd epoch takes two
get_num_state_parts(sync_hash) == (sync_hash % 2) + 1

\* runtime.obtain_state_part: the bytes of a part of the state at sync_hash
obtain_state_part(sync_hash, part_id, num_parts) == << sync_hash, part_id, num_parts >>

\* mutant of external_storage_location: every part goes to the file of part 0
external_storage_location_one_file(epoch_height, part_id, num_parts) ==
    << epoch_height, 0, num_parts >>

\* external_storage_location: directory epoch_height, file state_part_<id>_of_<num>
external_storage_location(epoch_height, part_id, num_parts) ==
    << epoch_height, part_id, num_parts >>

\* list_state_parts followed by extract_part_id_from_part_file_name
list_state_parts(ext, epoch_height) ==
    {loc[2] : loc \in {l \in DOMAIN ext : l[1] = epoch_height}}

\* mutant of get_missing_part_ids_for_epoch: the listing is ignored
get_missing_part_ids_for_epoch_all(epoch_height, total_parts, ext) ==
    0..(total_parts - 1)

get_missing_part_ids_for_epoch(epoch_height, total_parts, ext) ==
    LET existing_nums == list_state_parts(ext, epoch_height)
    IN  IF existing_nums # {}
        THEN {i \in 0..(total_parts - 1) : i \notin existing_nums}
        ELSE 0..(total_parts - 1)

\* the assertion of set_metrics: FALSE when it panics
set_metrics(epoch_height) ==
    IsSome(epoch_height) => Unwrap(epoch_height) < 10000

\* mutant of start_dumping: care_about_shard is not asked
start_dumping_any_shard(epoch_id, sync_hash) ==
    Ok(Some(InProgress(epoch_id, epoch_height_of(epoch_id), sync_hash)))

start_dumping(epoch_id, sync_hash) ==
    LET epoch_height == epoch_height_of(epoch_id)
    IN  IF tracked
        THEN Ok(Some(InProgress(epoch_id, epoch_height, sync_hash)))
        ELSE Ok(Some(AllDumped(epoch_id, epoch_height, Some(0))))

\* whether the set_metrics call of start_dumping passes its assertion
start_dumping_metrics(epoch_id) ==
    tracked => set_metrics(Some(epoch_height_of(epoch_id)))

\* set_metrics: the gauge of dumped parts takes the value, when one is given
set_metrics_parts_dumped(value, gauge) ==
    IF IsSome(value) THEN Unwrap(value) ELSE gauge

\* the gauge of dumped parts after start_dumping
start_dumping_parts_dumped(gauge) ==
    IF tracked THEN set_metrics_parts_dumped(Some(0), gauge) ELSE gauge

\* the gauge of dumped parts after check_new_epoch
check_new_epoch_parts_dumped(epoch_id, num_parts, gauge) ==
    IF Some(head_epoch) = epoch_id
    THEN set_metrics_parts_dumped(num_parts, gauge)
    ELSE IF Some(header_epoch_id(get_epoch_start_sync_hash(final_epoch))) = epoch_id
         THEN gauge
         ELSE start_dumping_parts_dumped(gauge)

\* mutant of check_new_epoch: the head's epoch is not compared with the epoch dumped last
check_new_epoch_unchecked_head(epoch_id, epoch_height, num_parts) ==
    LET sync_hash == get_epoch_start_sync_hash(final_epoch)
    IN  IF Some(header_epoch_id(sync_hash)) = epoch_id
        THEN Ok(None)
        ELSE start_dumping(head_epoch, sync_hash)

check_new_epoch(epoch_id, epoch_height, num_parts) ==
    IF Some(head_epoch) = epoch_id
    THEN Ok(None)
    ELSE LET sync_hash == get_epoch_start_sync_hash(final_epoch)
         IN  IF Some(header_epoch_id(sync_hash)) = epoch_id
             THEN Ok(None)
             ELSE start_dumping(head_epoch, sync_hash)

\* whether the set_metrics calls made by check_new_epoch pass their assertion
check_new_epoch_metrics(epoch_id, epoch_height) ==
    IF Some(head_epoch) = epoch_id
    THEN set_metrics(epoch_height)
    ELSE IF Some(header_epoch_id(get_epoch_start_sync_hash(final_epoch))) = epoch_id
         THEN TRUE
         ELSE start_dumping_metrics(head_epoch)

\* mutant of all_dumped: the height and the number of parts change places
all_dumped_swapped(p, num_parts) ==
    AllDumped(p.epoch_id, num_parts, Some(p.epoch_height))

\* the AllDumped value an InProgress iteration returns when no part is missing
all_dumped(p, num_parts) ==
    AllDumped(p.epoch_id, p.epoch_height, Some(num_parts))

chainVars == << head_epoch, final_epoch, first_epoch_height, tracked >>
dumpHist == << last_write, dumped, prev_dumped, quiet_before, read_failed >>
peerVars == << peer_pc, peer_progress, peer_parts, peer_in_flight >>
dumpAux == << has_progress, parts_dumped, listed, cleared_at_start, after_stop,
              peerVars >>

\* mutant of DumperStart: the progress is kept whatever restart_dump says
DumperStartKeepsProgress ==
    /\ d_pc = "start"
    /\ progress' = progress
    /\ cleared_at_start' =
           (restart_dump /\ IsSome(progress) /\ Unwrap(progress).tag = "AllDumped")
    /\ d_pc' = "loop"
    /\ UNCHANGED << keep_running, restart_dump, next_state, parts_to_dump, part_in_flight, elapsed,
                    external, StateParts, chainVars, dumpHist, has_progress,
                    parts_dumped, listed, after_stop, peerVars, migVars >>

\* the task starts for a shard in restart_dump_for_shards and the delete of the
\* stored progress fails: the unwrap panics and the progress stays
DumperStartFails ==
    /\ d_pc = "start"
    /\ restart_dump
    /\ d_pc' = "panicked"
    /\ UNCHANGED << keep_running, restart_dump, progress, next_state, parts_to_dump,
                    part_in_flight, elapsed, external, StateParts, chainVars,
                    dumpHist, dumpAux, migVars >>

\* the task starts: progress of a shard in restart_dump_for_shards is dropped
DumperStart ==
    /\ d_pc = "start"
    /\ progress' = IF restart_dump THEN None ELSE progress
    /\ cleared_at_start' =
           (restart_dump /\ IsSome(progress) /\ Unwrap(progress).tag = "AllDumped")
    /\ d_pc' = "loop"
    /\ UNCHANGED << keep_running, restart_dump, next_state, parts_to_dump, part_in_flight, elapsed,
                    external, StateParts, chainVars, dumpHist, has_progress,
                    parts_dumped, listed, after_stop, peerVars, migVars >>

\* while keep_running: the flag is false and the task ends
LoopExit ==
    /\ d_pc = "loop"
    /\ ~keep_running
    /\ d_pc' = "stopped"
    /\ quiet_before' = FALSE
    /\ read_failed' = FALSE
    /\ UNCHANGED << keep_running, restart_dump, progress, next_state, parts_to_dump, part_in_flight,
                    elapsed, external, StateParts, chainVars, last_write, dumped,
                    prev_dumped, dumpAux, migVars >>

\* progress is AllDumped, or absent: check_new_epoch
DispatchCheckNewEpoch ==
    /\ d_pc = "loop"
    /\ keep_running
    /\ IsSome(progress) => Unwrap(progress).tag = "AllDumped"
    /\ LET epoch_id == IF IsSome(progress) THEN Some(Unwrap(progress).epoch_id) ELSE None
           epoch_height ==
               IF IsSome(progress) THEN Some(Unwrap(progress).epoch_height) ELSE None
           num_parts == IF IsSome(progress) THEN Unwrap(progress).num_parts ELSE None
       IN  /\ parts_dumped' =
                  check_new_epoch_parts_dumped(epoch_id, num_parts, parts_dumped)
           /\ IF check_new_epoch_metrics(epoch_id, epoch_height)
              THEN /\ next_state' = check_new_epoch(epoch_id, epoch_height, num_parts)
                   /\ d_pc' = "record"
              ELSE /\ next_state' = next_state
                   /\ d_pc' = "panicked"
    /\ has_progress' = FALSE
    /\ UNCHANGED << keep_running, restart_dump, progress, parts_to_dump, part_in_flight, elapsed,
                    external, StateParts, chainVars, dumpHist, listed,
                    cleared_at_start, after_stop, peerVars, migVars >>

\* progress is InProgress: get_in_progress_data, then the task awaits the listing
\* of external storage
DispatchInProgress ==
    /\ d_pc = "loop"
    /\ keep_running
    /\ IsSome(progress) /\ Unwrap(progress).tag = "InProgress"
    /\ d_pc' = "listing"
    /\ has_progress' = FALSE
    /\ UNCHANGED << keep_running, restart_dump, progress, next_state, parts_to_dump,
                    part_in_flight, elapsed, external, StateParts, chainVars,
                    dumpHist, parts_dumped, listed, cleared_at_start, after_stop,
                    peerVars, migVars >>

\* the listing returns: AllDumped when no part is missing, else the part loop
ListingReturns ==
    /\ d_pc = "listing"
    /\ LET p == Unwrap(progress)
           num_parts == get_num_state_parts(p.sync_hash)
           parts_not_dumped ==
               get_missing_part_ids_for_epoch(p.epoch_height, num_parts, external)
       IN  IF parts_not_dumped = {}
           THEN /\ next_state' = Ok(Some(all_dumped(p, num_parts)))
                /\ d_pc' = "record"
                /\ UNCHANGED << parts_to_dump, elapsed >>
           ELSE /\ parts_to_dump' = parts_not_dumped
                /\ elapsed' = 0
                /\ d_pc' = "parts"
                /\ UNCHANGED next_state
    /\ listed' = list_state_parts(external, Unwrap(progress).epoch_height)
    /\ UNCHANGED << keep_running, restart_dump, progress, part_in_flight, external,
                    StateParts, chainVars, dumpHist, has_progress, parts_dumped,
                    cleared_at_start, after_stop, peerVars, migVars >>

\* the listing of external storage fails
ListingFails ==
    /\ d_pc = "listing"
    /\ next_state' = Err
    /\ d_pc' = "record"
    /\ UNCHANGED << keep_running, restart_dump, progress, parts_to_dump,
                    part_in_flight, elapsed, external, StateParts, chainVars,
                    dumpHist, dumpAux, migVars >>

\* a read of the chain or of the epoch manager fails
DispatchError ==
    /\ d_pc = "loop"
    /\ keep_running
    /\ next_state' = Err
    /\ d_pc' = "record"
    /\ has_progress' = FALSE
    /\ UNCHANGED << keep_running, restart_dump, progress, parts_to_dump, part_in_flight, elapsed,
                    external, StateParts, chainVars, dumpHist, parts_dumped, listed,
                    cleared_at_start, after_stop, peerVars, migVars >>

\* mutant of DispatchReadError: after the delete the iteration goes on as a first
\* invocation
DispatchReadErrorAsFirst ==
    /\ d_pc = "loop"
    /\ keep_running
    /\ \E deleted \in BOOLEAN : progress' = IF deleted THEN None ELSE progress
    /\ next_state' = check_new_epoch(None, None, None)
    /\ d_pc' = "record"
    /\ has_progress' = FALSE
    /\ read_failed' = TRUE
    /\ UNCHANGED << keep_running, restart_dump, parts_to_dump, part_in_flight, elapsed, external,
                    StateParts, chainVars, last_write, dumped, prev_dumped,
                    quiet_before, parts_dumped, listed, cleared_at_start, after_stop,
                    peerVars, migVars >>

\* reading the progress fails: it is deleted, if the delete succeeds
DispatchReadError ==
    /\ d_pc = "loop"
    /\ keep_running
    /\ \E deleted \in BOOLEAN : progress' = IF deleted THEN None ELSE progress
    /\ next_state' = Ok(None)
    /\ d_pc' = "record"
    /\ has_progress' = FALSE
    /\ read_failed' = TRUE
    /\ UNCHANGED << keep_running, restart_dump, parts_to_dump, part_in_flight, elapsed, external,
                    StateParts, chainVars, last_write, dumped, prev_dumped,
                    quiet_before, parts_dumped, listed, cleared_at_start, after_stop,
                    peerVars, migVars >>

\* mutant of PartLoopRuns: the part loop does not look at keep_running
PartLoopRunsWhenStopped ==
    /\ elapsed <= STATE_DUMP_ITERATION_TIME_LIMIT_SECS
    /\ parts_to_dump # {}

\* the condition of the inner while loop
PartLoopRuns ==
    /\ keep_running
    /\ elapsed <= STATE_DUMP_ITERATION_TIME_LIMIT_SECS
    /\ parts_to_dump # {}

\* StatePartKey(sync_hash, shard_id, part_id)
StatePartKey(sync_hash, part_id) == << sync_hash, part_id >>

\* the condition holds: a part is selected, obtained and committed to StateParts,
\* and the task awaits its upload
PartLoopEnter ==
    /\ d_pc = "parts"
    /\ PartLoopRuns
    /\ \E part_id \in parts_to_dump :
          LET p == Unwrap(progress)
              num_parts == get_num_state_parts(p.sync_hash)
              state_part == obtain_state_part(p.sync_hash, part_id, num_parts)
          IN  /\ StateParts' =
                     MapInsert(StateParts, StatePartKey(p.sync_hash, part_id), state_part)
              /\ part_in_flight' = Some(part_id)
    /\ d_pc' = "part"
    /\ UNCHANGED << keep_running, restart_dump, progress, next_state, parts_to_dump,
                    elapsed, external, chainVars, dumpHist, dumpAux, migVars >>

\* update_dumped_size_and_cnt_metrics: the gauge of dumped parts is incremented
update_dumped_size_and_cnt_metrics(gauge) == gauge + 1

\* a part upload completes: it is counted when stop was called before
UploadCompletes ==
    IF keep_running THEN after_stop
    ELSE [after_stop EXCEPT !.uploads = @ + 1]

\* put_state_part returns Ok: the part leaves the working set and is counted
PartDumped ==
    /\ d_pc = "part"
    /\ LET p == Unwrap(progress)
           part_id == Unwrap(part_in_flight)
           num_parts == get_num_state_parts(p.sync_hash)
           state_part == StateParts[StatePartKey(p.sync_hash, part_id)]
       IN  /\ external' =
                  MapInsert(external,
                      external_storage_location(p.epoch_height, part_id, num_parts),
                      state_part)
           /\ parts_to_dump' = parts_to_dump \ {part_id}
    /\ part_in_flight' = None
    /\ parts_dumped' = update_dumped_size_and_cnt_metrics(parts_dumped)
    /\ after_stop' = UploadCompletes
    /\ quiet_before' = FALSE
    /\ read_failed' = FALSE
    /\ d_pc' = "parts"
    /\ UNCHANGED << keep_running, restart_dump, progress, next_state, elapsed,
                    StateParts, chainVars, last_write, dumped, prev_dumped,
                    has_progress, listed, cleared_at_start, peerVars, migVars >>

\* mutant of PartPutFails: the part leaves the working set though the upload failed
PartPutFailsRemovesPart ==
    /\ d_pc = "part"
    /\ parts_to_dump' = parts_to_dump \ {Unwrap(part_in_flight)}
    /\ part_in_flight' = None
    /\ d_pc' = "parts"
    /\ UNCHANGED << keep_running, restart_dump, progress, next_state, elapsed,
                    external, StateParts, chainVars, dumpHist, dumpAux, migVars >>

\* mutant of PartPutFails: the failed part is counted as dumped
PartPutFailsCounted ==
    /\ d_pc = "part"
    /\ part_in_flight' = None
    /\ parts_dumped' = update_dumped_size_and_cnt_metrics(parts_dumped)
    /\ d_pc' = "parts"
    /\ UNCHANGED << keep_running, restart_dump, progress, next_state, parts_to_dump,
                    elapsed, external, StateParts, chainVars, dumpHist, has_progress,
                    listed, cleared_at_start, after_stop, peerVars, migVars >>

\* put_state_part returns Err: the loop continues with the part in the working set
PartPutFails ==
    /\ d_pc = "part"
    /\ part_in_flight' = None
    /\ d_pc' = "parts"
    /\ UNCHANGED << keep_running, restart_dump, progress, next_state, parts_to_dump,
                    elapsed, external, StateParts, chainVars, dumpHist, dumpAux,
                    migVars >>

\* the value the iteration returns after the part loop
after_part_loop(p, parts) ==
    IF parts = {}
    THEN Ok(Some(all_dumped(p, get_num_state_parts(p.sync_hash))))
    ELSE Ok(Some(InProgress(p.epoch_id, p.epoch_height, p.sync_hash)))

\* mutant of PartObtainFails: the part is uploaded though it was not stored
PartObtainFailsUploads ==
    /\ d_pc = "parts"
    /\ PartLoopRuns
    /\ \E part_id \in parts_to_dump :
          LET p == Unwrap(progress)
              num_parts == get_num_state_parts(p.sync_hash)
              state_part == obtain_state_part(p.sync_hash, part_id, num_parts)
          IN  /\ external' =
                     MapInsert(external,
                         external_storage_location(p.epoch_height, part_id, num_parts),
                         state_part)
              /\ parts_to_dump' = parts_to_dump \ {part_id}
    /\ d_pc' = "parts"
    /\ UNCHANGED << keep_running, restart_dump, progress, next_state, part_in_flight,
                    elapsed, StateParts, chainVars, dumpHist, dumpAux, migVars >>

\* the condition holds and obtain_and_store_state_part fails (the obtain or the
\* commit to StateParts): nothing is stored and the loop breaks
PartObtainFails ==
    /\ d_pc = "parts"
    /\ PartLoopRuns
    /\ next_state' = after_part_loop(Unwrap(progress), parts_to_dump)
    /\ d_pc' = "record"
    /\ UNCHANGED << keep_running, restart_dump, progress, parts_to_dump,
                    part_in_flight, elapsed, external, StateParts, chainVars,
                    dumpHist, dumpAux, migVars >>

\* the condition of the part loop is false
PartLoopExit ==
    /\ d_pc = "parts"
    /\ ~PartLoopRuns
    /\ next_state' = after_part_loop(Unwrap(progress), parts_to_dump)
    /\ d_pc' = "record"
    /\ UNCHANGED << keep_running, restart_dump, progress, parts_to_dump, part_in_flight, elapsed,
                    external, StateParts, chainVars, dumpHist, dumpAux, migVars >>

\* time passes while the part loop runs
Tick ==
    /\ d_pc \in {"parts", "part"}
    /\ elapsed <= STATE_DUMP_ITERATION_TIME_LIMIT_SECS
    /\ elapsed' = elapsed + 1
    /\ UNCHANGED << d_pc, keep_running, restart_dump, progress, next_state,
                    parts_to_dump, part_in_flight, external, StateParts, chainVars, dumpHist, dumpAux, migVars >>

\* whether the iteration that is about to record has uploaded a part: it found
\* InProgress, its listing returned (the dispatch has a value to record) and its
\* working set is no longer what the listing left to dump
UploadedInIteration ==
    /\ IsSome(progress)
    /\ Unwrap(progress).tag = "InProgress"
    /\ next_state.ok /\ IsSome(next_state.val)
    /\ LET num_parts == get_num_state_parts(Unwrap(progress).sync_hash)
       IN  parts_to_dump # (0..(num_parts - 1)) \ listed

\* the next state is persisted: the iteration has progress
RecordNextState ==
    /\ d_pc = "record"
    /\ next_state.ok /\ IsSome(next_state.val)
    /\ progress' = next_state.val
    /\ last_write' = next_state.val
    /\ prev_dumped' = dumped
    /\ dumped' = IF Unwrap(next_state.val).tag = "AllDumped"
                 THEN dumped \cup {Unwrap(next_state.val).epoch_height}
                 ELSE dumped
    /\ next_state' = Ok(None)
    /\ parts_to_dump' = {}
    /\ part_in_flight' = None
    /\ elapsed' = 0
    /\ has_progress' = TRUE
    /\ cleared_at_start' = FALSE
    /\ listed' = {}
    /\ quiet_before' = (next_state.val = progress /\ ~UploadedInIteration)
    /\ read_failed' = FALSE
    /\ d_pc' = "loop"
    /\ UNCHANGED << keep_running, restart_dump, external, StateParts, chainVars,
                    parts_dumped, after_stop, peerVars, migVars >>

\* mutant of RecordFails: the loop goes on without the sleep
RecordFailsIterates ==
    /\ d_pc = "record"
    /\ next_state.ok /\ IsSome(next_state.val)
    /\ next_state' = Ok(None)
    /\ parts_to_dump' = {}
    /\ part_in_flight' = None
    /\ elapsed' = 0
    /\ has_progress' = FALSE
    /\ listed' = {}
    /\ d_pc' = "loop"
    /\ UNCHANGED << keep_running, restart_dump, progress, external, StateParts,
                    chainVars, dumpHist, parts_dumped, cleared_at_start, after_stop,
                    peerVars, migVars >>

\* set_state_sync_dump_progress fails: no progress
RecordFails ==
    /\ d_pc = "record"
    /\ next_state.ok /\ IsSome(next_state.val)
    /\ next_state' = Ok(None)
    /\ parts_to_dump' = {}
    /\ part_in_flight' = None
    /\ elapsed' = 0
    /\ has_progress' = FALSE
    /\ listed' = {}
    /\ quiet_before' = FALSE
    /\ read_failed' = FALSE
    /\ d_pc' = "sleep"
    /\ UNCHANGED << keep_running, restart_dump, progress, external, StateParts,
                    chainVars, last_write, dumped, prev_dumped, parts_dumped,
                    cleared_at_start, after_stop, peerVars, migVars >>

\* Ok(None) or Err: no progress
RecordIdle ==
    /\ d_pc = "record"
    /\ ~(next_state.ok /\ IsSome(next_state.val))
    /\ next_state' = Ok(None)
    /\ parts_to_dump' = {}
    /\ part_in_flight' = None
    /\ elapsed' = 0
    /\ has_progress' = FALSE
    /\ listed' = {}
    /\ quiet_before' = FALSE
    /\ read_failed' = FALSE
    /\ d_pc' = "sleep"
    /\ UNCHANGED << keep_running, restart_dump, progress, external, StateParts,
                    chainVars, last_write, dumped, prev_dumped, parts_dumped,
                    cleared_at_start, after_stop, peerVars, migVars >>

\* a sleep completes: it is counted when stop was called before
SleepCompletes ==
    IF keep_running THEN after_stop
    ELSE [after_stop EXCEPT !.sleeps = @ + 1]

\* actix_rt::time::sleep(iteration_delay)
Sleep ==
    /\ d_pc = "sleep"
    /\ d_pc' = "loop"
    /\ after_stop' = SleepCompletes
    /\ UNCHANGED << keep_running, restart_dump, progress, next_state, parts_to_dump, part_in_flight,
                    elapsed, external, StateParts, chainVars, dumpHist, has_progress,
                    parts_dumped, listed, cleared_at_start, peerVars, migVars >>

\* StateSyncDumpHandle::stop
Stop ==
    /\ keep_running
    /\ keep_running' = FALSE
    /\ UNCHANGED << d_pc, restart_dump, progress, next_state, parts_to_dump, part_in_flight, elapsed,
                    external, StateParts, chainVars, dumpHist, dumpAux, migVars >>

\* handle.stop() of the arbiter: the task is dropped before its first poll or
\* where it awaits, in the sleep, in the listing or in the upload of a part,
\* which is then not made
TaskDropped ==
    /\ ~keep_running
    /\ d_pc \in {"start", "sleep", "listing", "part"}
    /\ d_pc' = "stopped"
    /\ parts_to_dump' = {}
    /\ part_in_flight' = None
    /\ elapsed' = 0
    /\ listed' = {}
    /\ quiet_before' = FALSE
    /\ read_failed' = FALSE
    /\ UNCHANGED << keep_running, restart_dump, progress, next_state, external,
                    StateParts, chainVars, last_write, dumped, prev_dumped,
                    has_progress, parts_dumped, cleared_at_start, after_stop,
                    peerVars, migVars >>

\* spawn_state_sync_dump is called again on the same store and external storage:
\* in the same process the gauge of dumped parts, a process-wide static, keeps
\* its value; in a new process it starts at 0
DumperRestart ==
    /\ d_pc \in {"stopped", "panicked"}
    /\ restart_dump' \in BOOLEAN
    /\ keep_running' = TRUE
    /\ next_state' = Ok(None)
    /\ parts_to_dump' = {}
    /\ part_in_flight' = None
    /\ elapsed' = 0
    /\ has_progress' = FALSE
    /\ parts_dumped' \in {parts_dumped, 0}
    /\ after_stop' = NoneAfterStop
    /\ d_pc' = "start"
    /\ UNCHANGED << progress, external, StateParts, chainVars, dumpHist, listed,
                    cleared_at_start, peerVars, migVars >>

\* the head enters the next epoch; its last final block is in the epoch before
ChainHeadAdvance ==
    /\ head_epoch < MaxEpoch
    /\ head_epoch = final_epoch
    /\ head_epoch' = head_epoch + 1
    /\ UNCHANGED << d_pc, keep_running, restart_dump, progress, next_state,
                    parts_to_dump, part_in_flight, elapsed, external, StateParts, final_epoch,
                    first_epoch_height, tracked, dumpHist, dumpAux, migVars >>

\* a block of the head's epoch becomes final
ChainFinalize ==
    /\ final_epoch < head_epoch
    /\ final_epoch' = final_epoch + 1
    /\ UNCHANGED << d_pc, keep_running, restart_dump, progress, next_state,
                    parts_to_dump, part_in_flight, elapsed, external, StateParts, head_epoch,
                    first_epoch_height, tracked, dumpHist, dumpAux, migVars >>

\* a chain whose epoch heights are small, and one close to the bound of set_metrics
FirstEpochHeights == {1, 10000 - MaxEpoch}

InitDumper ==
    /\ d_pc = "start"
    /\ keep_running = TRUE
    /\ restart_dump \in BOOLEAN
    /\ progress = None
    /\ next_state = Ok(None)
    /\ parts_to_dump = {}
    /\ part_in_flight = None
    /\ elapsed = 0
    /\ external = EmptyMap
    /\ StateParts = EmptyMap
    /\ final_epoch = 0
    /\ head_epoch \in {0, 1}
    /\ first_epoch_height \in FirstEpochHeights
    /\ tracked \in BOOLEAN
    /\ has_progress = FALSE
    /\ parts_dumped = 0
    /\ peer_pc = "off"
    /\ peer_progress = None
    /\ peer_parts = {}
    /\ peer_in_flight = None
    /\ last_write = None
    /\ dumped = {}
    /\ prev_dumped = {}
    /\ listed = {}
    /\ quiet_before = FALSE
    /\ read_failed = FALSE
    /\ cleared_at_start = FALSE
    /\ after_stop = NoneAfterStop

InitDump == InitDumper /\ InitMigOf(EmptyMap, 1, 1)

Dumper ==
    \/ DumperStart \/ DumperStartFails \/ LoopExit
    \/ DispatchCheckNewEpoch \/ DispatchInProgress \/ DispatchError \/ DispatchReadError
    \/ ListingReturns \/ ListingFails
    \/ PartLoopEnter \/ PartDumped \/ PartPutFails \/ PartObtainFails \/ PartLoopExit
    \/ RecordNextState \/ RecordFails \/ RecordIdle \/ Sleep

Chain == ChainHeadAdvance \/ ChainFinalize

NextDump == Dumper \/ Tick \/ Stop \/ TaskDropped \/ DumperRestart \/ Chain

DumpSpec == InitDump /\ [][NextDump]_vars



(***************************************************************************)
(* The dumper under fair scheduling: keep_running stays true, the account  *)
(* tracks the shard, epoch heights are small, the progress store works,    *)
(* and the listing, obtain_state_part, the StateParts commit and           *)
(* put_state_part succeed eventually when they are tried again and again.  *)
(***************************************************************************)
InitDumpFair ==
    /\ InitDump
    /\ tracked = TRUE
    /\ first_epoch_height = 1

DumperRunning ==
    \/ DumperStart
    \/ DispatchCheckNewEpoch \/ DispatchInProgress \/ DispatchError
    \/ ListingReturns \/ ListingFails
    \/ PartLoopEnter \/ PartDumped \/ PartPutFails \/ PartObtainFails \/ PartLoopExit
    \/ RecordNextState \/ RecordIdle \/ Sleep

NextDumpFair == DumperRunning \/ Tick \/ Chain

FairDumpSpec ==
    /\ InitDumpFair
    /\ [][NextDumpFair]_vars
    /\ WF_vars(DumperRunning)
    /\ SF_vars(DispatchCheckNewEpoch)
    /\ SF_vars(DispatchInProgress)
    /\ SF_vars(ListingReturns)
    /\ SF_vars(PartLoopEnter)
    /\ SF_vars(PartDumped)
    /\ SF_vars(RecordNextState)

(***************************************************************************)
(* The dumper with a handle that can be stopped or dropped, under fair     *)
(* scheduling of the task; the progress can be read, and a write of it can *)
(* fail.                                                                   *)
(***************************************************************************)
DumperStoppable == DumperRunning \/ RecordFails \/ LoopExit

NextStop == DumperStoppable \/ Tick \/ Stop \/ TaskDropped \/ Chain

FairStopSpec ==
    /\ InitDumpFair
    /\ [][NextStop]_vars
    /\ WF_vars(DumperStoppable)

(***************************************************************************)
(* A second dumper of the same shard: the same state_sync_dump, with its   *)
(* own store for the progress, on the same chain and the same external     *)
(* storage.  Its store of parts is not shared and is left out; its         *)
(* iteration records the value it computed in the same step.               *)
(***************************************************************************)
mainVars == << d_pc, keep_running, restart_dump, progress, next_state, parts_to_dump,
               part_in_flight,
               elapsed, StateParts, chainVars, dumpHist, has_progress, parts_dumped,
               listed, cleared_at_start, after_stop >>

\* the second dumper is spawned, with no progress in its store
PeerStart ==
    /\ peer_pc = "off"
    /\ peer_pc' = "loop"
    /\ UNCHANGED << peer_progress, peer_parts, peer_in_flight, external, mainVars,
                    migVars >>

\* the value a successful check_new_epoch makes the progress
recorded(result, current) ==
    IF result.ok /\ IsSome(result.val) THEN result.val ELSE current

\* its progress is AllDumped, or absent: check_new_epoch
PeerCheckNewEpoch ==
    /\ peer_pc = "loop"
    /\ IsSome(peer_progress) => Unwrap(peer_progress).tag = "AllDumped"
    /\ LET known == IsSome(peer_progress)
           epoch_id == IF known THEN Some(Unwrap(peer_progress).epoch_id) ELSE None
           epoch_height == IF known THEN Some(Unwrap(peer_progress).epoch_height) ELSE None
           num_parts == IF known THEN Unwrap(peer_progress).num_parts ELSE None
       IN  peer_progress' =
               recorded(check_new_epoch(epoch_id, epoch_height, num_parts), peer_progress)
    /\ UNCHANGED << peer_pc, peer_parts, peer_in_flight, external, mainVars, migVars >>

\* its progress is InProgress: the task awaits the listing of external storage
PeerInProgress ==
    /\ peer_pc = "loop"
    /\ IsSome(peer_progress) /\ Unwrap(peer_progress).tag = "InProgress"
    /\ peer_pc' = "listing"
    /\ UNCHANGED << peer_progress, peer_parts, peer_in_flight, external, mainVars,
                    migVars >>

\* its listing returns: AllDumped is recorded when no part is missing, else the
\* part loop is entered
PeerListingReturns ==
    /\ peer_pc = "listing"
    /\ LET p == Unwrap(peer_progress)
           num_parts == get_num_state_parts(p.sync_hash)
           parts_not_dumped ==
               get_missing_part_ids_for_epoch(p.epoch_height, num_parts, external)
       IN  IF parts_not_dumped = {}
           THEN /\ peer_progress' = Some(all_dumped(p, num_parts))
                /\ peer_pc' = "loop"
                /\ UNCHANGED peer_parts
           ELSE /\ peer_parts' = parts_not_dumped
                /\ peer_pc' = "parts"
                /\ UNCHANGED peer_progress
    /\ UNCHANGED << peer_in_flight, external, mainVars, migVars >>

\* its listing fails: the iteration records nothing
PeerListingFails ==
    /\ peer_pc = "listing"
    /\ peer_pc' = "loop"
    /\ UNCHANGED << peer_progress, peer_parts, peer_in_flight, external, mainVars,
                    migVars >>

\* a turn of its part loop begins: a part is selected and obtained, and the task
\* awaits its upload
PeerPartLoopEnter ==
    /\ peer_pc = "parts"
    /\ \E part_id \in peer_parts : peer_in_flight' = Some(part_id)
    /\ peer_pc' = "part"
    /\ UNCHANGED << peer_progress, peer_parts, external, mainVars, migVars >>

\* its put_state_part returns Ok: the part is in external storage and leaves the
\* working set
PeerPartDumped ==
    /\ peer_pc = "part"
    /\ LET p == Unwrap(peer_progress)
           part_id == Unwrap(peer_in_flight)
           num_parts == get_num_state_parts(p.sync_hash)
           state_part == obtain_state_part(p.sync_hash, part_id, num_parts)
       IN  /\ external' =
                  MapInsert(external,
                      external_storage_location(p.epoch_height, part_id, num_parts),
                      state_part)
           /\ peer_parts' = peer_parts \ {part_id}
    /\ peer_in_flight' = None
    /\ peer_pc' = "parts"
    /\ UNCHANGED << peer_progress, mainVars, migVars >>

\* its put_state_part returns Err: the loop continues with the part in the working set
PeerPartPutFails ==
    /\ peer_pc = "part"
    /\ peer_in_flight' = None
    /\ peer_pc' = "parts"
    /\ UNCHANGED << peer_progress, peer_parts, external, mainVars, migVars >>

\* its part loop ends, with parts left when the time is up or a part could not be
\* obtained: the next state is recorded
PeerPartLoopExit ==
    /\ peer_pc = "parts"
    /\ peer_progress' = after_part_loop(Unwrap(peer_progress), peer_parts).val
    /\ peer_parts' = {}
    /\ peer_pc' = "loop"
    /\ UNCHANGED << peer_in_flight, external, mainVars, migVars >>

Peer ==
    \/ PeerStart \/ PeerCheckNewEpoch
    \/ PeerInProgress \/ PeerListingReturns \/ PeerListingFails
    \/ PeerPartLoopEnter \/ PeerPartDumped \/ PeerPartPutFails \/ PeerPartLoopExit

\* the chain moves before the dumpers are started
ChainBeforeStart == d_pc = "start" /\ peer_pc = "off" /\ Chain

NextTwoDumpers == DumperRunning \/ Tick \/ Peer \/ ChainBeforeStart

TwoDumperSpec ==
    /\ InitDumpFair
    /\ [][NextTwoDumpers]_vars
    /\ WF_vars(DumperRunning)
    /\ SF_vars(DispatchCheckNewEpoch)
    /\ SF_vars(DispatchInProgress)
    /\ SF_vars(ListingReturns)
    /\ SF_vars(PartLoopEnter)
    /\ SF_vars(PartDumped)
    /\ SF_vars(RecordNextState)
    /\ WF_vars(Peer)
    /\ SF_vars(PeerListingReturns)
    /\ SF_vars(PeerPartLoopEnter)
    /\ SF_vars(PeerPartDumped)

(***************************************************************************)
(* Predicates on entries, used by the properties.                          *)
(***************************************************************************)
IsRefValue(value) ==
    IsSome(try_from_slice(value)) /\ Unwrap(try_from_slice(value)).tag = "Ref"

IsInlinedValue(value) ==
    IsSome(try_from_slice(value)) /\ Unwrap(try_from_slice(value)).tag = "Inlined"

IsSmallRef(value) ==
    IsRefValue(value)
    /\ Unwrap(try_from_slice(value)).length <= INLINE_DISK_VALUE_THRESHOLD

IsBigRef(value) ==
    IsRefValue(value)
    /\ Unwrap(try_from_slice(value)).length > INLINE_DISK_VALUE_THRESHOLD

\* the Ref stored under key resolves in the trie store of the key's shard
Resolvable(key, value) ==
    /\ IsRefValue(value)
    /\ IsSome(decode_flat_state_db_key(key))
    /\ IsSome(retrieve_raw_bytes(Unwrap(decode_flat_state_db_key(key)),
                                 Unwrap(try_from_slice(value)).hash))

\* the bytes the trie store holds for the Ref stored under key
TrieBytes(key, value) ==
    Unwrap(retrieve_raw_bytes(Unwrap(decode_flat_state_db_key(key)),
                              Unwrap(try_from_slice(value)).hash))

AllResolvable(col) == \A k \in DOMAIN col : IsRefValue(col[k]) => Resolvable(k, col[k])

\* a step of the migration that commits its write batch
MigrationCommits == pc = "commit" /\ pc' = "resume"

\* the entry under key k is Inlined with the bytes the trie store holds for the
\* Ref the run found there
InlinedFrom(k) ==
    /\ k \in DOMAIN FlatState
    /\ try_from_slice(FlatState[k]) = Some(Inlined(TrieBytes(k, flat0[k])))

(***************************************************************************)
(* C1 as stated: after a run to completion with no concurrent writer, on a *)
(* store in which every Ref resolves, every entry that was a Ref of length *)
(* <= INLINE_DISK_VALUE_THRESHOLD is Inlined and holds the bytes the trie  *)
(* store has under its hash.                                               *)
(***************************************************************************)
C1_Original ==
    (pc = "done" /\ AllResolvable(flat0)) =>
        \A k \in DOMAIN flat0 : IsSmallRef(flat0[k]) => InlinedFrom(k)

(***************************************************************************)
(* C1 amended: after a run to completion with no concurrent writer, on a   *)
(* store in which every Ref resolves, every entry that was a Ref of length *)
(* <= INLINE_DISK_VALUE_THRESHOLD and that no iterator of the run yielded  *)
(* as an error is Inlined and holds the bytes the trie store has under its *)
(* hash; an entry an iterator yielded as an error is either Inlined with   *)
(* those bytes or as it was.                                               *)
(***************************************************************************)
C1_FullMigrationInlines ==
    (pc = "done" /\ AllResolvable(flat0)) =>
        \A k \in DOMAIN flat0 :
            IsSmallRef(flat0[k]) =>
                /\ k \notin iter_failed => InlinedFrom(k)
                /\ k \in iter_failed =>
                      \/ InlinedFrom(k)
                      \/ k \in DOMAIN FlatState /\ FlatState[k] = flat0[k]

\* a run of two threads inlined two entries in two commits and left the Ref the
\* iterator yielded as an error
C1_Witness ==
    /\ pc = "done" /\ run = 1 /\ AllResolvable(flat0)
    /\ Cardinality({k \in DOMAIN flat0 : IsSmallRef(flat0[k])}) >= 3
    /\ commits >= 2
    /\ read_state_threads = 2
    /\ \E k \in iter_failed : IsSmallRef(flat0[k]) /\ FlatState[k] = flat0[k]
    /\ \E k \in DOMAIN flat0 \ iter_failed : IsSmallRef(flat0[k]) /\ InlinedFrom(k)

C2_CommitOnlyResolvedRefs_Step ==
    MigrationCommits =>
         /\ DOMAIN FlatState' = DOMAIN FlatState
         /\ \A k \in DOMAIN FlatState :
               FlatState'[k] # FlatState[k] =>
                   /\ RewritesEntry(FlatState[k], hash_to_value)
                   /\ FlatState'[k] = try_to_vec(inlined(
                          hash_to_value[Unwrap(try_from_slice(FlatState[k])).hash]))

(***************************************************************************)
(* C2: every key a migration commit writes holds, at the moment of the     *)
(* commit, a Ref whose hash is in the map receive_all returned for the     *)
(* batch, and receives the inlined bytes of that hash; a key holding       *)
(* anything else is not overwritten, whatever block processing wrote       *)
(* between the scan and the commit.                                        *)
(***************************************************************************)
C2_CommitOnlyResolvedRefs == [][C2_CommitOnlyResolvedRefs_Step]_vars

\* block processing replaced a selected key whose hash was resolved, and the
\* commit left the replacement in place
C2_Witness ==
    /\ pc = "resume"
    /\ \E k \in selected \cap touched :
          /\ SelectedHash(k) \in DOMAIN hash_to_value
          /\ k \in DOMAIN FlatState
          /\ FlatState[k] = try_to_vec(inlined(VB))
    /\ store_update # {}

C3_NoWriteWhilePaused_Step ==
    pc \in {"reread", "commit", "resume"} =>
         /\ ~updates_mode
         /\ writes' = writes
         /\ touched' = touched
         /\ (pc = "reread" => FlatState' = FlatState)

(***************************************************************************)
(* C3: from the pause of a batch to its resume the gate is closed and no   *)
(* block-processing commit takes effect; the column does not change        *)
(* between the re-read and the migration's commit.                         *)
(***************************************************************************)
C3_NoWriteWhilePaused == [][C3_NoWriteWhilePaused_Step]_vars

\* the writer still has a commit to make and is held back by the gate
C3_Witness ==
    /\ pc = "commit"
    /\ writes < MaxWrites
    /\ store_update # {}

(***************************************************************************)
(* C4 as stated: in every execution, when the migration returns, also      *)
(* after block processing wrote entries while it ran, no Ref of length <=  *)
(* threshold with a resolvable hash is left in FlatState.                  *)
(***************************************************************************)
C4_Original ==
    pc = "done" =>
        \A k \in DOMAIN FlatState :
            ~(IsSmallRef(FlatState[k]) /\ Resolvable(k, FlatState[k]))

(***************************************************************************)
(* C4 amended: when the migration returns, no Ref of length <= threshold   *)
(* with a resolvable hash is left among the entries that block processing  *)
(* did not write while the migration ran and that no iterator of the       *)
(* migration yielded as an error.                                          *)
(***************************************************************************)
C4_NoSmallRefLeftUntouched ==
    pc = "done" =>
        \A k \in DOMAIN FlatState \ (touched \cup iter_failed) :
            ~(IsSmallRef(FlatState[k]) /\ Resolvable(k, FlatState[k]))

\* the migration has returned and left two small resolvable Refs, one that block
\* processing wrote and one that an iterator yielded as an error, and has
\* inlined another
C4_Witness ==
    /\ pc = "done"
    /\ \E k \in touched \ iter_failed :
          /\ k \in DOMAIN FlatState
          /\ IsSmallRef(FlatState[k])
          /\ Resolvable(k, FlatState[k])
    /\ \E k \in iter_failed \ touched :
          /\ k \in DOMAIN FlatState
          /\ IsSmallRef(FlatState[k])
          /\ Resolvable(k, FlatState[k])
    /\ \E k \in DOMAIN flat0 \ (touched \cup iter_failed) :
          IsSmallRef(flat0[k]) /\ Resolvable(k, flat0[k]) /\ IsInlinedValue(FlatState[k])

C5_Frame_Step ==
    (writes' = writes /\ run' = run /\ << FlatState, State >>' # << FlatState, State >>) =>
         /\ DOMAIN FlatState' = DOMAIN FlatState
         /\ State' = State
         /\ \A k \in DOMAIN FlatState :
               (IsInlinedValue(FlatState[k]) \/ IsBigRef(FlatState[k])) =>
                   FlatState'[k] = FlatState[k]

(***************************************************************************)
(* C5: no step of the migration adds or deletes a FlatState key, writes    *)
(* the State column, or changes an entry that is Inlined or a Ref of       *)
(* length > threshold, wherever the entry lies.                            *)
(***************************************************************************)
C5_Frame == [][C5_Frame_Step]_vars

\* a commit went through with a big Ref strictly inside the re-read range
C5_Witness ==
    /\ pc = "resume"
    /\ store_update # {}
    /\ \E k \in DOMAIN FlatState :
          /\ IsBigRef(FlatState[k])
          /\ LexLess(Unwrap(min_key), k)
          /\ LexLess(k, Unwrap(max_key))

\* the run has changed nothing so far: the column is as it was when the run
\* started, and the run has not paused updates or committed
RunNoOp ==
    /\ FlatState = flat0
    /\ pauses = 0
    /\ commits = 0
    /\ updates_mode
    /\ pc \notin {"pause", "reread", "commit", "resume", "panicked"}

(***************************************************************************)
(* C6 as stated: a run on the store a completed run left, with no write in *)
(* between, changes nothing: the column stays as it was when the run       *)
(* started and the run neither pauses updates nor commits.                 *)
(***************************************************************************)
C6_Original == run >= 2 => RunNoOp

(***************************************************************************)
(* C6 amended: a run on the store a completed run left, with no write in   *)
(* between, changes nothing, pauses no updates and commits nothing when no *)
(* iterator of the earlier run yielded an entry as an error.  When one     *)
(* did, the run can pause and commit; it adds and removes no key, and      *)
(* every entry it changes held a Ref of length <= threshold and becomes    *)
(* Inlined with bytes the trie store holds under the hash of that Ref.     *)
(***************************************************************************)
C6_SecondRunNoOp ==
    run >= 2 =>
        /\ prev_iter_errors = 0 => RunNoOp
        /\ DOMAIN FlatState = DOMAIN flat0
        /\ \A k \in DOMAIN flat0 :
              FlatState[k] # flat0[k] =>
                  /\ IsSmallRef(flat0[k])
                  /\ IsInlinedValue(FlatState[k])
                  /\ \E sk \in DOMAIN State :
                        /\ sk[2] = Unwrap(try_from_slice(flat0[k])).hash
                        /\ State[sk] = Unwrap(try_from_slice(FlatState[k])).bytes

\* the second run completed, after a first run that inlined a value, and had a
\* Ref to submit
C6_Witness ==
    /\ run = 2 /\ pc = "done" /\ prev_iter_errors = 0
    /\ \E k \in DOMAIN FlatState : FlatState[k] = try_to_vec(inlined(VB))
    /\ \E k \in DOMAIN FlatState : IsSmallRef(FlatState[k])
    /\ SKIPPED_COUNT >= 2


(***************************************************************************)
(* C7: receive_all returns only when every request submitted since the     *)
(* previous call has been answered: on return pending_requests is 0, no    *)
(* request or response is in flight, and the map holds exactly the hashes  *)
(* whose read succeeded, with their bytes.  With threads scheduled fairly  *)
(* it always returns.                                                      *)
(***************************************************************************)
\* the map receive_all has to return for the requests reqs
ExpectedMap(reqs) ==
    LET ok == {i \in 1..Len(reqs) :
                  IsSome(retrieve_raw_bytes(reqs[i].shard_uid, reqs[i].value_hash))}
    IN  [h \in {reqs[i].value_hash : i \in ok} |->
            LET i == CHOOSE j \in ok : reqs[j].value_hash = h
            IN  Unwrap(retrieve_raw_bytes(reqs[i].shard_uid, h))]

\* receive_all is not running and no request of a new batch has been submitted
ReceiveAllReturned == pc # "recv" /\ ~(pc = "scan" /\ in_batch > 0)

C7_ReceiveAllPost ==
    ReceiveAllReturned =>
        /\ pending_requests = 0
        /\ value_request = << >>
        /\ value_response = << >>
        /\ \A w \in DOMAIN worker : worker[w].st # "busy"
        /\ hash_to_value = ExpectedMap(submitted)

C7_ReceiveAll == []C7_ReceiveAllPost /\ ((pc = "recv") ~> (pc # "recv"))

\* receive_all returned a map for a batch with a failed and a successful read
C7_Witness ==
    /\ pc = "pause"
    /\ Len(submitted) >= 2
    /\ hash_to_value # EmptyMap
    /\ \E i \in 1..Len(submitted) :
          ~IsSome(retrieve_raw_bytes(submitted[i].shard_uid, submitted[i].value_hash))
    /\ read_state_threads = 2

(***************************************************************************)
(* C8: close drops the request sender before it joins, every worker then   *)
(* exits and close returns; when inline_flat_state_values has returned,    *)
(* every worker thread has terminated and no request is left unanswered.   *)
(***************************************************************************)
C8_ClosedState ==
    /\ (pc = "join" => request_closed)
    /\ (pc = "done" =>
          /\ \A w \in DOMAIN worker : worker[w].st = "exited"
          /\ joined = read_state_threads
          /\ value_request = << >>
          /\ value_response = << >>
          /\ pending_requests = 0)

C8_Close == []C8_ClosedState /\ ((pc = "close") ~> (pc = "done"))

C8_Witness ==
    /\ pc = "done"
    /\ read_state_threads = 2
    /\ commits >= 1
    /\ SKIPPED_COUNT >= 1

(***************************************************************************)
(* C9: a Ref of length <= threshold whose hash no request of its batch     *)
(* could read from the trie store is, unless block processing wrote the    *)
(* key, still the Ref the scan read; each such entry added at least one to *)
(* the skipped counter; the migration goes on and processes every          *)
(* remaining entry before it returns.                                      *)
(***************************************************************************)
C9_UnreadableRefKept ==
    /\ \A k \in unresolved \ touched :
          /\ k \in DOMAIN FlatState
          /\ FlatState[k] = flat0[k]
          /\ IsSmallRef(FlatState[k])
    /\ SKIPPED_COUNT >= Cardinality(unresolved)
    /\ (pc = "done" => iter = << >>)
    /\ (pc = "panicked" => commits < pauses)

\* the read of an entry failed in one batch and a later batch was inlined
C9_Witness ==
    /\ pc = "done"
    /\ \E k \in unresolved \ touched : \E k2 \in DOMAIN flat0 \ touched :
          /\ LexLess(k, k2)
          /\ IsSmallRef(flat0[k2])
          /\ IsInlinedValue(FlatState[k2])


(***************************************************************************)
(* C10: the progress values a shard's dumper persists are monotone in      *)
(* epoch_height: once AllDumped with epoch height h has been persisted,    *)
(* every value persisted later, InProgress or AllDumped, has an epoch      *)
(* height of at least h.  The head's epoch never moves backwards.          *)
(***************************************************************************)
C10_ProgressMonotone ==
    IsSome(last_write) =>
        \A h \in prev_dumped : Unwrap(last_write).epoch_height >= h

\* an epoch was dumped, a later one too, its progress was dropped and the
\* dump of that epoch has started again
C10_Witness ==
    /\ IsSome(last_write)
    /\ Unwrap(last_write).tag = "InProgress"
    /\ \E h \in prev_dumped : Unwrap(last_write).epoch_height > h
    /\ \E h \in prev_dumped : Unwrap(last_write).epoch_height = h


\* a step that replaces a persisted InProgress by AllDumped
MovesToAllDumped ==
    /\ IsSome(progress) /\ Unwrap(progress).tag = "InProgress"
    /\ IsSome(progress') /\ Unwrap(progress').tag = "AllDumped"

\* a turn of the part loop that takes part ids out of the working set
RemovesFromWorkingSet ==
    /\ d_pc \in {"parts", "part"}
    /\ d_pc' \in {"parts", "part"}
    /\ parts_to_dump' # parts_to_dump

C11_AllDumpedHasParts_Step ==
    /\ MovesToAllDumped =>
          /\ Unwrap(progress').epoch_id = Unwrap(progress).epoch_id
          /\ Unwrap(progress').epoch_height = Unwrap(progress).epoch_height
          /\ \A i \in 0..(Unwrap(Unwrap(progress').num_parts) - 1) :
                i \in list_state_parts(external', Unwrap(progress).epoch_height)
          /\ \A loc \in DOMAIN external :
                loc \in DOMAIN external' /\ external'[loc] = external[loc]
    /\ RemovesFromWorkingSet =>
          /\ parts_to_dump' \subseteq parts_to_dump
          /\ \A i \in parts_to_dump \ parts_to_dump' :
                LET p == Unwrap(progress)
                    n == get_num_state_parts(p.sync_hash)
                    loc == external_storage_location(p.epoch_height, i, n)
                    key == StatePartKey(p.sync_hash, i)
                IN  /\ key \in DOMAIN StateParts'
                    /\ StateParts'[key] = obtain_state_part(p.sync_hash, i, n)
                    /\ loc \in DOMAIN external'
                    /\ external'[loc] = StateParts'[key]

(***************************************************************************)
(* C11: when the dumper replaces InProgress{epoch_id, epoch_height,        *)
(* sync_hash} by AllDumped{epoch_id, epoch_height, num_parts = n}, every   *)
(* part id in [0, n) is listed in external storage under the directory of  *)
(* that epoch height at that moment, and no object was deleted; a part id  *)
(* leaves the working set only in a turn in which the part was obtained,   *)
(* committed to StateParts and uploaded.                                   *)
(***************************************************************************)
C11_AllDumpedHasParts == [][C11_AllDumpedHasParts_Step]_vars

\* a two-part epoch has just been recorded as AllDumped
C11_Witness ==
    /\ d_pc = "loop"
    /\ IsSome(progress)
    /\ Unwrap(progress).tag = "AllDumped"
    /\ Unwrap(progress).num_parts = Some(2)
    /\ last_write = progress


\* the state of epoch e has been dumped under the location of epoch e: the
\* progress is AllDumped for e and every part file of the state is in storage
EpochDumped(e) ==
    /\ IsSome(progress)
    /\ Unwrap(progress).tag = "AllDumped"
    /\ Unwrap(progress).epoch_id = e
    /\ LET sync_hash == get_epoch_start_sync_hash(e)
           num == get_num_state_parts(sync_hash)
       IN  \A i \in 0..(num - 1) :
              LET loc == external_storage_location(epoch_height_of(e), i, num)
              IN  /\ loc \in DOMAIN external
                  /\ external[loc] = obtain_state_part(sync_hash, i, num)

(***************************************************************************)
(* C12: under fair scheduling, with keep_running true, the shard tracked   *)
(* and every failing operation succeeding eventually, an epoch that is the *)
(* epoch of the last final block is eventually AllDumped with every part   *)
(* file state_part_<i>_of_<num> of its state in external storage, unless   *)
(* the chain finalizes a later epoch first.                                *)
(***************************************************************************)
C12_EpochEventuallyDumped ==
    \A e \in Epochs : (final_epoch = e) ~> (EpochDumped(e) \/ final_epoch # e)


\* the locations whose object a step created or changed
Uploaded ==
    {loc \in DOMAIN external' : loc \notin DOMAIN external \/ external'[loc] # external[loc]}

\* the StateParts keys whose value a step created or changed
Stored ==
    {key \in DOMAIN StateParts' :
        key \notin DOMAIN StateParts \/ StateParts'[key] # StateParts[key]}

C13_Resumable_Step ==
    /\ (d_pc = "listing" /\ d_pc' = "parts") =>
          LET p == Unwrap(progress)
              n == get_num_state_parts(p.sync_hash)
          IN  /\ listed' = list_state_parts(external, p.epoch_height)
              /\ parts_to_dump' = (0..(n - 1)) \ listed'
    /\ (d_pc \in {"parts", "part"}) =>
          LET p == Unwrap(progress)
              n == get_num_state_parts(p.sync_hash)
          IN  /\ parts_to_dump \subseteq (0..(n - 1)) \ listed
              /\ d_pc' \in {"parts", "part"} => parts_to_dump' \subseteq parts_to_dump
              /\ \A key \in Stored :
                    key[1] = p.sync_hash /\ key[2] \in parts_to_dump
              /\ \A loc \in Uploaded :
                    /\ loc[1] = p.epoch_height
                    /\ loc[2] \in parts_to_dump
                    /\ loc[2] \notin listed
                    /\ loc[2] \notin parts_to_dump'
                    /\ StatePartKey(p.sync_hash, loc[2]) \in DOMAIN StateParts'
    /\ (d_pc \notin {"parts", "part"}) => (Uploaded = {} /\ Stored = {})

(***************************************************************************)
(* C13: the dump is resumable.  When an iteration that finds InProgress    *)
(* enters the part loop, the working set is [0, num_parts) minus the part  *)
(* ids listed in external storage at that moment; while the loop runs the  *)
(* working set only shrinks, a part is obtained or uploaded only when its  *)
(* id is in the working set and was not in that listing, and an uploaded   *)
(* part leaves the working set, so no part id is uploaded twice in one     *)
(* iteration; outside the part loop nothing is obtained or uploaded.       *)
(***************************************************************************)
C13_Resumable == [][C13_Resumable_Step]_vars

\* an iteration that found part 0 in the listing has uploaded the missing part
C13_Witness ==
    /\ d_pc = "parts"
    /\ listed = {0}
    /\ parts_to_dump = {}
    /\ IsSome(progress)
    /\ Unwrap(progress).tag = "InProgress"
    /\ external_storage_location(Unwrap(progress).epoch_height, 1, 2) \in DOMAIN external


\* the step with which the task starts, before its first loop iteration
TaskStarts == d_pc = "start" /\ d_pc' = "loop"

C14_RestartClears_Step ==
    /\ TaskStarts =>
          /\ restart_dump => progress' = None
          /\ ~restart_dump => progress' = progress
    /\ (cleared_at_start /\ tracked /\ d_pc = "loop" /\ d_pc' = "record"
            /\ next_state'.ok /\ IsSome(next_state'.val)) =>
          /\ Unwrap(next_state'.val).tag = "InProgress"
          /\ Unwrap(next_state'.val).epoch_id = head_epoch
          /\ Unwrap(next_state'.val).epoch_height = epoch_height_of(head_epoch)
    /\ (cleared_at_start /\ progress' # progress) =>
          /\ progress = None
          /\ d_pc = "record"
          /\ progress' = next_state.val
          /\ tracked => Unwrap(progress').tag = "InProgress"

(***************************************************************************)
(* C14: the start of a dumper whose shard is in restart_dump_for_shards    *)
(* deletes the persisted progress before the first loop iteration, and     *)
(* the start of any other dumper leaves it as it is.  After a start that   *)
(* dropped an AllDumped, the progress stays absent until a value is        *)
(* persisted, and for a tracked shard that value is the InProgress that    *)
(* the dispatch computed for the epoch of the head.                        *)
(***************************************************************************)
C14_RestartClears == [][C14_RestartClears_Step]_vars

\* a start has dropped an AllDumped and the first iteration has an InProgress to record
C14_Witness ==
    /\ cleared_at_start
    /\ restart_dump
    /\ progress = None
    /\ IsSome(last_write) /\ Unwrap(last_write).tag = "AllDumped"
    /\ d_pc = "record"
    /\ next_state.ok /\ IsSome(next_state.val)
    /\ Unwrap(next_state.val).tag = "InProgress"


C15_UntrackedSkipped_Step ==
    ~tracked =>
        /\ (d_pc = "loop" /\ d_pc' = "record" /\ next_state'.ok
                /\ IsSome(next_state'.val)) =>
              next_state'.val =
                  Some(AllDumped(head_epoch, epoch_height_of(head_epoch), Some(0)))
        /\ (progress' # progress /\ IsSome(progress')) =>
              /\ progress' = next_state.val
              /\ Unwrap(progress').tag = "AllDumped"
              /\ Unwrap(progress').num_parts = Some(0)
        /\ d_pc' \notin {"parts", "part"}
        /\ Uploaded = {}
        /\ Stored = {}

(***************************************************************************)
(* C15: when care_about_shard is false for the shard, the discovery of a   *)
(* new epoch returns AllDumped{epoch_id, epoch_height, num_parts = 0} for  *)
(* the epoch of the head, that value is what the dumper persists, it       *)
(* never persists InProgress, never enters the part loop, and obtains and  *)
(* uploads no part.                                                        *)
(***************************************************************************)
C15_UntrackedSkipped == [][C15_UntrackedSkipped_Step]_vars

\* an epoch of a shard that is not tracked has been recorded, after another one
C15_Witness ==
    /\ ~tracked
    /\ IsSome(progress)
    /\ progress = last_write
    /\ Unwrap(progress) = AllDumped(1, epoch_height_of(1), Some(0))
    /\ epoch_height_of(0) \in dumped
    /\ external = EmptyMap
    /\ StateParts = EmptyMap


(***************************************************************************)
(* C16 as stated, its bound: after keep_running is false at most one part  *)
(* upload or one idle sleep completes, not both.                           *)
(***************************************************************************)
C16_Original ==
    [][~keep_running => after_stop'.uploads + after_stop'.sleeps <= 1]_vars

C16_StopExits_Step ==
    ~keep_running =>
        /\ d_pc = "loop" => d_pc' \in {"loop", "stopped"}
        /\ d_pc = "parts" => d_pc' \in {"parts", "record"}
        /\ d_pc = "loop" => progress' = progress
        /\ after_stop'.uploads <= 1
        /\ after_stop'.sleeps <= 1

(***************************************************************************)
(* C16 amended: once stop has set keep_running to false the task reads no  *)
(* progress and starts no outer iteration any more, begins no part of the  *)
(* part loop after the one in flight, completes at most one part upload    *)
(* and at most one sleep (both, when the upload in flight completes and    *)
(* the iteration then has no progress), and eventually leaves its loop.    *)
(***************************************************************************)
C16_StopExits ==
    /\ [][C16_StopExits_Step]_vars
    /\ (~keep_running) ~> (d_pc = "stopped")

\* the task has left its loop after the part in flight at the stop was uploaded
\* and the sleep of that iteration was completed
C16_Witness ==
    /\ ~keep_running
    /\ d_pc = "stopped"
    /\ after_stop.uploads = 1
    /\ after_stop.sleeps = 1
    /\ IsSome(progress)
    /\ Unwrap(progress).tag = "InProgress"


\* the external storage a single dumper leaves for an InProgress value
SingleDumperStorage(p) ==
    LET n == get_num_state_parts(p.sync_hash)
    IN  [loc \in {external_storage_location(p.epoch_height, i, n) : i \in 0..(n - 1)} |->
            obtain_state_part(p.sync_hash, loc[2], n)]

\* the InProgress value both dumpers compute on the chain as it is
SharedInProgress ==
    InProgress(head_epoch, epoch_height_of(head_epoch),
               get_epoch_start_sync_hash(final_epoch))

\* both dumpers have recorded AllDumped for the epoch
BothAllDumped ==
    LET done == Some(all_dumped(SharedInProgress,
                                get_num_state_parts(SharedInProgress.sync_hash)))
    IN  progress = done /\ peer_progress = done

C17_TwoDumpers_Step ==
    peer_pc # "off" =>
        /\ \A loc \in DOMAIN external :
              /\ loc \in DOMAIN SingleDumperStorage(SharedInProgress)
              /\ external[loc] = SingleDumperStorage(SharedInProgress)[loc]
        /\ \A loc \in DOMAIN external :
              loc \in DOMAIN external' /\ external'[loc] = external[loc]
        /\ BothAllDumped => external = SingleDumperStorage(SharedInProgress)

(***************************************************************************)
(* C17: two dumpers of the same shard that dump the same epoch to the same *)
(* external storage, each with its own progress.  In every interleaving    *)
(* each object in storage is a part file of that epoch with the bytes of   *)
(* its part, an upload never changes or removes an object that is there    *)
(* (uploading a part a second time changes nothing), when both dumpers     *)
(* have recorded AllDumped the storage is what a single dumper leaves, and *)
(* under fair scheduling both dumpers reach AllDumped.                     *)
(***************************************************************************)
C17_TwoDumpers ==
    /\ [][C17_TwoDumpers_Step]_vars
    /\ <>BothAllDumped

\* the first dumper has uploaded both parts itself and recorded AllDumped, and
\* the second has uploaded every part of its working set
C17_Witness ==
    /\ d_pc = "loop"
    /\ has_progress
    /\ IsSome(progress)
    /\ Unwrap(progress).tag = "AllDumped"
    /\ Unwrap(progress).num_parts = Some(2)
    /\ parts_dumped = 2
    /\ peer_pc = "parts"
    /\ peer_parts = {}


\* the step that ends an iteration: the dispatch has returned and the outcome is recorded
IterationEnds == d_pc = "record" /\ d_pc' # "record"

C18_SleepIffNoTransition_Step ==
    /\ IterationEnds =>
          /\ d_pc' \in {"loop", "sleep"}
          /\ d_pc' = "sleep" <=> ~has_progress'
          /\ has_progress' =>
                /\ next_state.ok /\ IsSome(next_state.val)
                /\ progress' = next_state.val
                /\ last_write' = next_state.val
          /\ ~has_progress' => (progress' = progress /\ last_write' = last_write)
          /\ ~(next_state.ok /\ IsSome(next_state.val)) => d_pc' = "sleep"
    /\ (d_pc # "sleep" /\ d_pc' = "sleep") => IterationEnds
    /\ (d_pc # "loop" /\ d_pc' = "loop") =>
          \/ d_pc = "start"
          \/ d_pc = "sleep"
          \/ IterationEnds /\ has_progress'

(***************************************************************************)
(* C18: the step that ends a loop iteration goes to the sleep of           *)
(* iteration_delay exactly when has_progress is false, that is when the    *)
(* dispatch returned Ok(None) or an error, or the write of the next state  *)
(* failed, and then the persisted progress is unchanged; when the next     *)
(* state was persisted the task is at the top of the loop at once.  The    *)
(* sleep is entered from nowhere else, and the top of the loop is reached  *)
(* only from the start, from the sleep, or from such a persisted state.    *)
(***************************************************************************)
C18_SleepIffNoTransition == [][C18_SleepIffNoTransition_Step]_vars

\* the task sleeps after an iteration of an InProgress epoch that recorded nothing
C18_Witness ==
    /\ d_pc = "sleep"
    /\ ~has_progress
    /\ IsSome(progress)
    /\ Unwrap(progress).tag = "InProgress"
    /\ external # EmptyMap


\* an iteration ends in which no part was uploaded and the persisted progress
\* keeps its value
QuietIterationEnds ==
    /\ IterationEnds
    /\ progress' = progress
    /\ ~UploadedInIteration

(***************************************************************************)
(* C19: the loop never busy-loops.  Of two consecutive iterations in which *)
(* no part was uploaded and the persisted progress did not change, the     *)
(* second does not follow the first without a sleep of iteration_delay in  *)
(* between.                                                                *)
(***************************************************************************)
C19_NoBusyLoop_Step == QuietIterationEnds => ~quiet_before

C19_NoBusyLoop == [][C19_NoBusyLoop_Step]_vars


\* the upload the task awaited has ended without an object: put_state_part failed
PutFails == d_pc = "part" /\ d_pc' = "parts" /\ Uploaded = {}

\* the loop is left though its condition holds: obtain_and_store_state_part failed
ObtainFails == d_pc = "parts" /\ PartLoopRuns /\ d_pc' = "record"

\* a turn of the part loop ends without an upload
TurnFails == PutFails \/ ObtainFails

C20_FailedPartKept_Step ==
    /\ TurnFails =>
          /\ parts_to_dump' = parts_to_dump
          /\ parts_dumped' = parts_dumped
          /\ progress' = progress
    /\ ObtainFails => Stored = {}
    /\ PutFails =>
          /\ next_state' = next_state
          /\ StateParts' = StateParts
          /\ Unwrap(part_in_flight) \in parts_to_dump'
          /\ StatePartKey(Unwrap(progress).sync_hash, Unwrap(part_in_flight))
                 \in DOMAIN StateParts'
    /\ (d_pc \in {"parts", "part"} /\ parts_dumped' # parts_dumped) =>
          /\ Uploaded # {}
          /\ parts_dumped' = parts_dumped + 1
    /\ (d_pc = "parts" /\ d_pc' = "record" /\ parts_to_dump # {}) =>
          LET p == Unwrap(progress)
          IN  next_state' = Ok(Some(InProgress(p.epoch_id, p.epoch_height, p.sync_hash)))

(***************************************************************************)
(* C20: in the part loop a turn whose upload fails leaves the working set, *)
(* the gauge of dumped parts and the progress as they are and the loop     *)
(* goes on with its condition and another draw; a turn whose               *)
(* obtain_and_store_state_part fails leaves them as they are too, stores   *)
(* nothing and leaves the loop at once.  The gauge of dumped parts moves   *)
(* only with an upload, by one.  When the loop is left with a non-empty    *)
(* working set the next state is InProgress with the epoch_id,             *)
(* epoch_height and sync_hash of the persisted value.                      *)
(***************************************************************************)
C20_FailedPartKept == [][C20_FailedPartKept_Step]_vars

\* the loop was left with a part that was stored but not uploaded still in the
\* working set, and the next state is the InProgress that is persisted
C20_Witness ==
    /\ d_pc = "record"
    /\ IsSome(progress)
    /\ Unwrap(progress).tag = "InProgress"
    /\ next_state = Ok(progress)
    /\ \E i \in parts_to_dump :
          /\ StatePartKey(Unwrap(progress).sync_hash, i) \in DOMAIN StateParts
          /\ i \notin list_state_parts(external, Unwrap(progress).epoch_height)
    /\ parts_dumped = 0


(***************************************************************************)
(* C21: when the read of the progress finds nothing (DBNotFound or no      *)
(* value) the iteration behaves as the first invocation: its result is     *)
(* that of check_new_epoch without a last dumped epoch, and the progress   *)
(* is left alone.  When the read fails with another error the progress is  *)
(* deleted or, if the delete fails, kept; the iteration records no         *)
(* transition and sleeps before the next one.                              *)
(***************************************************************************)
Dispatches == d_pc = "loop" /\ d_pc' # "loop" /\ d_pc' # "stopped"

C21_ReadErrorRetries_Step ==
    /\ (Dispatches /\ progress = None /\ ~read_failed') =>
           /\ progress' = progress
           /\ \/ d_pc' = "record" /\ next_state' = Err
              \/ IF check_new_epoch_metrics(None, None)
                 THEN /\ d_pc' = "record"
                      /\ next_state' = check_new_epoch(None, None, None)
                 ELSE d_pc' = "panicked"
    /\ (Dispatches /\ read_failed') =>
           /\ progress' \in {None, progress}
           /\ next_state' = Ok(None)
           /\ d_pc' = "record"
    /\ (read_failed /\ d_pc' # d_pc) =>
           /\ d_pc = "record"
           /\ d_pc' = "sleep"
           /\ progress' = progress
           /\ last_write' = last_write
           /\ ~has_progress'

C21_ReadErrorRetries == [][C21_ReadErrorRetries_Step]_vars

\* the read failed and so did the delete: the progress is still there
C21_Witness ==
    /\ read_failed
    /\ d_pc = "record"
    /\ IsSome(progress)
    /\ next_state = Ok(None)


(***************************************************************************)
(* C22: the updates mode is false only between the pause at the start of   *)
(* a batch's re-read and the resume after that batch's commit (a failed    *)
(* commit aborts inside that window); it is true in every scan phase,      *)
(* while the value reader has pending requests and when the migration      *)
(* returns.  The mode is switched off only by the pause and on only by     *)
(* the resume, which leads to the scan of the next batch, so every pause   *)
(* that is followed by a scan has been resumed.  A batch whose resolved    *)
(* map is empty goes straight back to the scan: no pause, no commit.       *)
(***************************************************************************)
PausedWindow == {"reread", "commit", "resume", "panicked"}

C22_GateWindow_Inv ==
    /\ ~updates_mode => pc \in PausedWindow
    /\ pc \in {"scan", "recv", "pause", "close", "join", "done"} => updates_mode
    /\ pending_requests > 0 => updates_mode
    /\ pc \in {"reread", "commit", "resume"} =>
           /\ ~updates_mode
           /\ hash_to_value # EmptyMap
           /\ pauses = commits + (IF pc = "resume" THEN 0 ELSE 1)
    /\ pc \in {"scan", "recv", "pause", "close", "join", "done"} => pauses = commits

C22_GateWindow_Step ==
    /\ (updates_mode /\ ~updates_mode') =>
           pc = "pause" /\ pc' = "reread" /\ pauses' = pauses + 1
    /\ (~updates_mode /\ updates_mode') =>
           pc = "resume" /\ pc' = "scan" /\ in_batch' = 0
    /\ (pc = "commit" /\ commits' # commits) => pc' = "resume"
    /\ (pc = "recv" /\ pc' # "recv" /\ hash_to_value = EmptyMap) =>
           /\ pc' = "scan"
           /\ updates_mode'
           /\ pauses' = pauses
           /\ commits' = commits
           /\ FlatState' = FlatState

C22_GateWindow == []C22_GateWindow_Inv /\ [][C22_GateWindow_Step]_vars

\* a batch was committed and resumed, a later batch resolved nothing and the
\* scan goes on with updates enabled
C22_Witness ==
    /\ pc = "scan"
    /\ updates_mode
    /\ pauses = 1
    /\ commits = 1
    /\ in_batch = 0
    /\ hash_to_value = EmptyMap
    /\ selected # {}


\* the scan consumes one item of the iterator
ScanStep == pc = "scan" /\ in_batch' = in_batch + 1

\* the item is skipped: an iterator error, or a key or a value that does not decode
ScanStepSkips ==
    \/ iter_errors' # iter_errors
    \/ ~IsSome(decode_flat_state_db_key(Head(iter)[1]))
    \/ ~IsSome(try_from_slice(Head(iter)[2]))

\* a skipped item is counted, nothing is submitted and the scan goes on; only
\* a failed commit aborts
C23_SkipStep ==
    /\ (ScanStep /\ ScanStepSkips) =>
           /\ SKIPPED_COUNT' = SKIPPED_COUNT + 1
           /\ pending_requests' = pending_requests
           /\ value_request' = value_request
           /\ submitted' = (IF in_batch = 0 THEN << >> ELSE submitted)
           /\ FlatState' = FlatState
           /\ iter' = Tail(iter)
           /\ pc' = "scan"
    /\ (pc # "panicked" /\ pc' = "panicked") => pc = "commit"

\* entries of the column the scan skips for their key or for their value, and
\* that block processing did not write
SkippedForKey ==
    {k \in DOMAIN flat0 \ touched : ~IsSome(decode_flat_state_db_key(k))}
SkippedForValue ==
    {k \in DOMAIN flat0 \ touched : ~IsSome(try_from_slice(flat0[k]))}

C23_SkippedUnchanged ==
    \A k \in SkippedForKey \cup SkippedForValue :
        k \in DOMAIN FlatState /\ FlatState[k] = flat0[k]

(***************************************************************************)
(* C23 as stated: an iterator error, a key or a value that does not decode *)
(* makes the scan skip the entry, count it and go on; the skipped entry is *)
(* never submitted and is left byte-for-byte unchanged; only a failed      *)
(* commit aborts the migration.                                            *)
(***************************************************************************)
C23_Original == []C23_SkippedUnchanged /\ [][C23_SkipStep]_vars

C23_SkippedValueUnchanged ==
    \A k \in SkippedForValue : k \in DOMAIN FlatState /\ FlatState[k] = flat0[k]

C23_SkippedRewritten_Step ==
    \A k \in DOMAIN FlatState :
        writes' = writes =>
            /\ k \in DOMAIN FlatState'
            /\ FlatState'[k] # FlatState[k] =>
                  /\ MigrationCommits
                  /\ RewritesEntry(FlatState[k], hash_to_value)
                  /\ ReadableInBatch(Unwrap(try_from_slice(FlatState[k])).hash)
                  /\ FlatState'[k] = try_to_vec(inlined(
                         hash_to_value[Unwrap(try_from_slice(FlatState[k])).hash]))

(***************************************************************************)
(* C23 amended: an iterator error, a key or a value that does not decode   *)
(* makes the scan skip the entry, count it and go on; the skipped entry is *)
(* never submitted; an entry whose value does not decode is left           *)
(* byte-for-byte unchanged, and an entry skipped for its key or for an     *)
(* iterator error is changed only by the commit of a batch whose re-read   *)
(* range contains it, which replaces a Ref by the inlined bytes a request  *)
(* of that batch read for its hash; only a failed commit aborts the        *)
(* migration.                                                              *)
(***************************************************************************)
C23_SkipAndContinue ==
    /\ []C23_SkippedValueUnchanged
    /\ [][C23_SkipStep /\ C23_SkippedRewritten_Step]_vars

\* the scan skipped an entry whose key does not decode, and the commit of the
\* batch inlined it with the bytes read for the entries around it
C23_Witness ==
    /\ pc = "resume"
    /\ SKIPPED_COUNT >= 1
    /\ KShort \in SkippedForKey
    /\ KShort \notin selected
    /\ flat0[KShort] = try_to_vec(value_ref(VA))
    /\ FlatState[KShort] = try_to_vec(inlined(VA))


\* the part loop starts a turn: a part is about to be obtained
PartStarts == d_pc = "parts" /\ d_pc' = "part"

C24_TimeLimit_Step ==
    PartStarts =>
        /\ keep_running
        /\ parts_to_dump # {}
        /\ elapsed < STATE_DUMP_ITERATION_TIME_LIMIT_SECS

(***************************************************************************)
(* C24: the part loop starts a new part only while keep_running is true,   *)
(* the working set is not empty and the time elapsed since the loop began  *)
(* is below STATE_DUMP_ITERATION_TIME_LIMIT_SECS: once the elapsed time    *)
(* has reached the limit no further part is begun in the iteration.        *)
(***************************************************************************)
C24_TimeLimit == [][C24_TimeLimit_Step]_vars


\* the requests submitted in the current batch, without their order
SubmittedSet == {submitted[i] : i \in 1..Len(submitted)}

\* the requests of a set whose read of the trie store succeeds
Readable(reqs) ==
    {r \in reqs : IsSome(retrieve_raw_bytes(r.shard_uid, r.value_hash))}

\* the map determined by a set of requests and the trie store
ResolvedMap(reqs) ==
    [h \in {r.value_hash : r \in Readable(reqs)} |->
        Unwrap(retrieve_raw_bytes(
            (CHOOSE r \in Readable(reqs) : r.value_hash = h).shard_uid, h))]

\* submissions that are not yet answered or whose answer is not yet received
InFlight ==
    Len(value_request) + Cardinality({w \in DOMAIN worker : worker[w].st = "busy"})
        + Len(value_response)

(***************************************************************************)
(* C25: the map receive_all returns is determined by the requests          *)
(* submitted and by the trie store, whatever the order in which the        *)
(* workers took the requests and delivered the responses: it holds each    *)
(* hash for which some request was readable, with the bytes every readable *)
(* request of that hash reads.  Each submission counts once in             *)
(* pending_requests, also when its hash was submitted before, and a hash   *)
(* submitted several times has one entry in the map.                       *)
(***************************************************************************)
C25_OrderIndependent ==
    /\ \A r1, r2 \in Readable(SubmittedSet) :
          r1.value_hash = r2.value_hash =>
              retrieve_raw_bytes(r1.shard_uid, r1.value_hash)
                  = retrieve_raw_bytes(r2.shard_uid, r2.value_hash)
    /\ ReceiveAllReturned => hash_to_value = ResolvedMap(SubmittedSet)
    /\ (pc = "scan" /\ in_batch > 0) => pending_requests = Len(submitted)
    /\ pc \in {"scan", "recv"} => pending_requests = InFlight

\* two threads served a batch in which one hash was submitted twice, once
\* readable and once not, and the map has the one entry
C25_Witness ==
    /\ pc = "pause"
    /\ read_state_threads = 2
    /\ Len(submitted) = 2
    /\ submitted[1].value_hash = submitted[2].value_hash
    /\ Cardinality(Readable(SubmittedSet)) = 1
    /\ DOMAIN hash_to_value = {submitted[1].value_hash}


(***************************************************************************)
(* C26: the assertion epoch_height < 10000 of set_metrics holds whenever   *)
(* the dumper calls it: no dispatch of a loop iteration, which is where    *)
(* set_metrics is called, ends in a panic, whatever the epoch heights of   *)
(* the chain.                                                              *)
(***************************************************************************)
C26_AssertionHolds == [][d_pc = "loop" => d_pc' # "panicked"]_vars


\* the epoch whose epoch height is h
EpochOfHeight(h) == h - first_epoch_height

(***************************************************************************)
(* C27: in every persisted InProgress{epoch_id, epoch_height, sync_hash}   *)
(* the sync hash is the epoch-start block of the epoch epoch_id names and  *)
(* epoch_height is the height of that epoch, and every part in external    *)
(* storage under the location of an epoch is a part of the state of that   *)
(* epoch, also when the head was an epoch ahead of its last final block at *)
(* the time the epoch was discovered.                                      *)
(***************************************************************************)
C27_SyncHashOfEpoch ==
    /\ (IsSome(progress) /\ Unwrap(progress).tag = "InProgress") =>
          /\ header_epoch_id(Unwrap(progress).sync_hash) = Unwrap(progress).epoch_id
          /\ Unwrap(progress).sync_hash
                 = get_epoch_start_sync_hash(Unwrap(progress).epoch_id)
          /\ Unwrap(progress).epoch_height = epoch_height_of(Unwrap(progress).epoch_id)
    /\ \A loc \in DOMAIN external :
          external[loc] =
              obtain_state_part(get_epoch_start_sync_hash(EpochOfHeight(loc[1])),
                                loc[2], loc[3])


\* the step writes the next state of the iteration
Records == d_pc = "record" /\ d_pc' = "loop"

\* the step drops the progress: restart_dump_for_shards, or a failed read
Drops == (d_pc = "start" /\ restart_dump) \/ (d_pc = "loop" /\ read_failed')

C28_Transitions_Step ==
    /\ progress' # progress => (Records \/ Drops)
    /\ (Drops /\ progress' # progress) => progress' = None
    /\ Records =>
          /\ IsSome(progress')
          /\ LET new == Unwrap(progress')
             IN  IF IsSome(progress) /\ Unwrap(progress).tag = "InProgress"
                 THEN \/ progress' = progress
                      \/ /\ new.tag = "AllDumped"
                         /\ new.epoch_id = Unwrap(progress).epoch_id
                         /\ new.epoch_height = Unwrap(progress).epoch_height
                         /\ IsSome(new.num_parts)
                 ELSE /\ \/ new.tag = "InProgress"
                         \/ new.tag = "AllDumped" /\ new.num_parts = Some(0)
                      /\ IsSome(progress) => new.epoch_id # Unwrap(progress).epoch_id

(***************************************************************************)
(* C28: the persisted progress changes only along these transitions: from  *)
(* absent or AllDumped{e} to InProgress{e'} or AllDumped{e', 0 parts} with *)
(* e' other than e; from InProgress{e, h, s} to the same value or to       *)
(* AllDumped{e, h, n}; from any value to absent, by restart_dump_for_shards*)
(* at the start of the task or by a failed read of the progress.  So an    *)
(* InProgress epoch is not replaced by another epoch before it is          *)
(* AllDumped, and the epoch recorded as AllDumped is not started again.    *)
(***************************************************************************)
C28_Transitions == [][C28_Transitions_Step]_vars

\* two epochs went through InProgress to AllDumped, the first with parts
C28_Witness ==
    /\ d_pc = "loop"
    /\ tracked
    /\ IsSome(progress)
    /\ Unwrap(progress).tag = "AllDumped"
    /\ Unwrap(progress).num_parts # Some(0)
    /\ last_write = progress
    /\ Cardinality(dumped) = 2


\* the bytes the trie store holds for hash h, in any shard
StoreContent(h) == {State[sk] : sk \in {x \in DOMAIN State : x[2] = h}}

\* what an entry resolves to: the bytes of an Inlined, the trie-store content of
\* the hash of a Ref, the raw bytes of a value that does not decode
ResolvedBytes(value) ==
    IF IsInlinedValue(value) THEN {Unwrap(try_from_slice(value)).bytes}
    ELSE IF IsRefValue(value) THEN StoreContent(Unwrap(try_from_slice(value)).hash)
    ELSE {<< "raw", value >>}

C29_CommitPreservesBytes_Step ==
    MigrationCommits =>
        /\ DOMAIN FlatState' = DOMAIN FlatState
        /\ \A k \in DOMAIN FlatState :
              /\ ResolvedBytes(FlatState'[k]) = ResolvedBytes(FlatState[k])
              /\ FlatState'[k] # FlatState[k] =>
                    /\ IsRefValue(FlatState[k])
                    /\ IsInlinedValue(FlatState'[k])
                    /\ StoreContent(Unwrap(try_from_slice(FlatState[k])).hash)
                           = {Unwrap(try_from_slice(FlatState'[k])).bytes}
                    /\ Len(Unwrap(try_from_slice(FlatState'[k])).bytes)
                           = Unwrap(try_from_slice(FlatState[k])).length

(***************************************************************************)
(* C29: a commit of the migration changes an entry only from Ref{hash,     *)
(* length} to Inlined(bytes) where bytes is the content the trie store     *)
(* holds for that hash, of that length; the bytes every key resolves to    *)
(* are the same before and after the commit, also when one hash is stored  *)
(* under several keys or in several shards.                                *)
(***************************************************************************)
C29_CommitPreservesBytes == [][C29_CommitPreservesBytes_Step]_vars

\* one commit inlined two hashes, one of them under keys of two shards
C29_Witness ==
    /\ pc = "resume"
    /\ flat0[K1] = try_to_vec(value_ref(VA))
    /\ flat0[K4] = try_to_vec(value_ref(VA))
    /\ K2 \in DOMAIN flat0 /\ flat0[K2] = try_to_vec(value_ref(VB))
    /\ {K1, K4} \subseteq DOMAIN FlatState
    /\ FlatState[K1] = try_to_vec(inlined(VA))
    /\ FlatState[K4] = try_to_vec(inlined(VA))
    /\ K2 \in DOMAIN FlatState /\ FlatState[K2] = try_to_vec(inlined(VB))
    /\ commits = 1


\* every object of external storage has its bytes in StateParts, under its part id
C30_UploadedIsStored ==
    \A loc \in DOMAIN external :
        \E key \in DOMAIN StateParts :
            /\ key[2] = loc[2]
            /\ StateParts[key] = external[loc]

C30_StoreBeforeUpload_Step ==
    /\ \A loc \in Uploaded :
          /\ d_pc = "part"
          /\ loc[2] \in parts_to_dump
          /\ StatePartKey(Unwrap(progress).sync_hash, loc[2]) \in DOMAIN StateParts
          /\ StateParts[StatePartKey(Unwrap(progress).sync_hash, loc[2])]
                 = external'[loc]
          /\ StateParts' = StateParts
    /\ \A key \in DOMAIN StateParts :
          key \in DOMAIN StateParts' /\ StateParts'[key] = StateParts[key]
    /\ d_pc = "part" =>
          /\ IsSome(part_in_flight)
          /\ StatePartKey(Unwrap(progress).sync_hash, Unwrap(part_in_flight))
                 \in DOMAIN StateParts
    /\ (d_pc = "parts" /\ d_pc' = "record") =>
          /\ external' = external
          /\ StateParts' = StateParts
          /\ parts_to_dump' = parts_to_dump

(***************************************************************************)
(* C30: a part is uploaded only when its bytes are committed to            *)
(* StateParts: while the task awaits an upload, and when the upload is     *)
(* made, the same bytes are in StateParts under (sync_hash, shard_id,      *)
(* part_id), what is stored is never removed or changed, so every          *)
(* uploaded part has its bytes in StateParts; a turn whose obtain or       *)
(* StateParts commit fails uploads nothing and leaves the part in the      *)
(* working set.                                                            *)
(***************************************************************************)
C30_StoreBeforeUpload ==
    []C30_UploadedIsStored /\ [][C30_StoreBeforeUpload_Step]_vars

\* a part was stored and uploaded; another was stored, its upload failed and
\* it is still in the working set
C30_Witness ==
    /\ d_pc = "parts"
    /\ DOMAIN external # {}
    /\ \E part_id \in parts_to_dump :
          StatePartKey(Unwrap(progress).sync_hash, part_id) \in DOMAIN StateParts

====
